---- MODULE Spec2Model ----
(***************************************************************************)
(* Model of the report builder's upload pipeline:                          *)
(*   - the filename classifier (detectComparisonId, detectFileType),       *)
(*   - handleSmartUpload, the async per-file loop that merges parsed files *)
(*     into the shared processedData state,                                *)
(*   - updateComparisonDetails and removeFile,                             *)
(*   - the sheet parsers smartSheetToJson and parseComparisonDGE (header   *)
(*     row scan, row filter, counters, significance and downsampling).     *)
(* Filenames, headers and cell texts are TLA+ strings; TLC evaluates Len,  *)
(* \o and SubSeq on them, so the string predicates below work character by *)
(* character as the JavaScript ones do.                                    *)
(***************************************************************************)
EXTENDS Integers, Sequences, FiniteSets, TLC

VARIABLES
    tokens,         \* classifier specs: the tokens the filename is made of
    cls,            \* classifier specs: result of the detectors on the filename
    processedData,  \* App state: the shared dataset
    stats,          \* App state: ProjectStats (the two counters the GTF branch sets)
    customTemplate, \* App state: uploaded template text
    uploadStatus,   \* App state: the upload list
    call,           \* one entry per handleSmartUpload invocation
    nextId,         \* source of fresh file ids
    edits,          \* number of updateComparisonDetails calls so far
    sheet,          \* parser specs: the grid of the first sheet of a workbook
    out             \* parser specs: what the parser returned for the grid

vars == <<tokens, cls, processedData, stats, customTemplate, uploadStatus, call, nextId, edits,
          sheet, out>>

-----------------------------------------------------------------------------
(* Bounds *)

MaxIdTokens == 4
MaxTokens == 2
MaxUploads == 2     \* handleSmartUpload invocations
MaxFiles == 2       \* files over all invocations
MaxEdits == 1       \* updateComparisonDetails calls
MaxRemovals == 1    \* removeFile calls
MaxRows == 2        \* data rows of a sheet whose rows are drawn one by one
MaxSig == 4000      \* rows of the longest run of significant rows
MaxNonSig == 6001   \* rows of the longest run of non-significant rows
MaxGridRows == 3    \* rows of a grid handed to smartSheetToJson
MaxHeaders == 3     \* keys of a summary row after the comparison column
MaxLines == 4       \* lines of an annotation file

-----------------------------------------------------------------------------
(* String helpers: the JavaScript String methods the code uses *)

null == "null"

Min(S) == CHOOSE m \in S : \A n \in S : m <= n

CharAt(s, i) == SubSeq(s, i, i)

UpperChars == "ABCDEFGHIJKLMNOPQRSTUVWXYZ"
LowerChars == "abcdefghijklmnopqrstuvwxyz"

\* upper-case letter -> lower-case letter, and back
LowerOf == [c \in {CharAt(UpperChars, i) : i \in 1..26} |->
               CharAt(LowerChars, CHOOSE i \in 1..26 : CharAt(UpperChars, i) = c)]
UpperOf == [c \in {CharAt(LowerChars, i) : i \in 1..26} |->
               CharAt(UpperChars, CHOOSE i \in 1..26 : CharAt(LowerChars, i) = c)]

LowerChar(c) == IF c \in DOMAIN LowerOf THEN LowerOf[c] ELSE c

\* the strings of a sequence, from the i-th on, put together
RECURSIVE ConcatFrom(_, _)
ConcatFrom(ts, i) == IF i > Len(ts) THEN "" ELSE ts[i] \o ConcatFrom(ts, i + 1)

Concat(ts) == ConcatFrom(ts, 1)

toLowerCase(s) == Concat([i \in 1..Len(s) |-> LowerChar(CharAt(s, i))])

includes(s, k) ==
    \E i \in 1..(Len(s) - Len(k) + 1) : SubSeq(s, i, i + Len(k) - 1) = k

endsWith(s, k) ==
    Len(k) <= Len(s) /\ SubSeq(s, Len(s) - Len(k) + 1, Len(s)) = k

startsWithAt(s, p, k) ==
    p + Len(k) - 1 <= Len(s) /\ SubSeq(s, p, p + Len(k) - 1) = k

IsDigit(c) == c \in {"0", "1", "2", "3", "4", "5", "6", "7", "8", "9"}

IsSpace(c) == c \in {" ", "\t"}

\* position of the first character at or after p that is not white space (\s*)
SkipSpaces(s, p) ==
    Min({q \in p..(Len(s) + 1) : q = Len(s) + 1 \/ ~IsSpace(CharAt(s, q))})

\* last position of the run of digits that starts at q (\d+, greedy)
DigitRunEnd(s, q) ==
    Min({e \in q..Len(s) : e = Len(s) \/ ~IsDigit(CharAt(s, e + 1))})

-----------------------------------------------------------------------------
(* detectComparisonId *)

\* (variant: the alias "group" left out of the expression)
GroupAliasesNoGroup == <<"comparison", "comp", "c", "contrast", "g">>

\* the alternatives of the group of the regular expression, in its order
GroupAliases == <<"comparison", "comp", "c", "contrast", "group", "g">>

\* \s*[-_]?\s*(\d+) matched from position p: where the digits start, 0 if no match
DigitsAfter(s, p) ==
    LET q1 == SkipSpaces(s, p)
        q2 == IF q1 <= Len(s) /\ CharAt(s, q1) \in {"-", "_"} THEN q1 + 1 ELSE q1
        q3 == SkipSpaces(s, q2)
    IN  IF q3 <= Len(s) /\ IsDigit(CharAt(s, q3)) THEN q3 ELSE 0

\* the whole expression matched at start position p of the lower-cased name:
\* where the captured digits start, 0 if no alternative matches there
MatchAt(lower, p) ==
    LET ok == {a \in 1..Len(GroupAliases) :
                  /\ startsWithAt(lower, p, GroupAliases[a])
                  /\ DigitsAfter(lower, p + Len(GroupAliases[a])) # 0}
    IN  IF ok = {} THEN 0
        ELSE DigitsAfter(lower, p + Len(GroupAliases[Min(ok)]))

detectComparisonId(filename) ==
    LET lower  == toLowerCase(filename)
        starts == {p \in 1..Len(lower) : MatchAt(lower, p) # 0}
    IN  IF starts = {} THEN null
        ELSE LET q == MatchAt(lower, Min(starts))
             IN  "C" \o SubSeq(filename, q, DigitRunEnd(filename, q))

-----------------------------------------------------------------------------
(* detectFileType *)

\* (variant: the gzip-compressed read extensions left out)
BinaryExtensionsNoGz ==
    {".fastq", ".fq", ".bam", ".sam", ".bai",
     ".fa", ".fasta", ".fna", ".pdf", ".png", ".jpg", ".jpeg", ".svg"}

BinaryExtensions ==
    {".fastq", ".fq", ".fastq.gz", ".fq.gz", ".bam", ".sam", ".bai",
     ".fa", ".fasta", ".fna", ".pdf", ".png", ".jpg", ".jpeg", ".svg"}

IsDeliverableExt(lower) == \E x \in BinaryExtensions : endsWith(lower, x)

IsMapping(lower) ==
    /\ \E k \in {"mapping", "align", "star", "bowtie", "hisat"} : includes(lower, k)
    /\ \/ \E k \in {"stat", "summary", "report", "log"} : includes(lower, k)
       \/ \E x \in {".txt", ".csv", ".xlsx"} : endsWith(lower, x)

IsGlobalStats(lower) ==
    \/ includes(lower, "multiqc")
    \/ /\ \E k \in {"stat", "report", "summary"} : includes(lower, k)
       /\ \E k \in {"data", "raw", "seq", "trim", "qc", "qual"} : includes(lower, k)

\* (variant: "overview" not taken as a summary keyword)
IsDgeSummaryNoOverview(lower) ==
    /\ \E k \in {"summary", "all"} : includes(lower, k)
    /\ \E k \in {"dge", "diff", "deg"} : includes(lower, k)

IsDgeSummary(lower) ==
    /\ \E k \in {"summary", "overview", "all"} : includes(lower, k)
    /\ \E k \in {"dge", "diff", "deg"} : includes(lower, k)

\* (variant: "gene_ontology" alone not taken as a GO name)
IsGoNoGeneOntology(lower) ==
    /\ includes(lower, "go")
    /\ \E k \in {"enrich", "term", "result", "_go", "go_"} : includes(lower, k)

IsGo(lower) ==
    \/ /\ includes(lower, "go")
       /\ \E k \in {"enrich", "term", "result", "_go", "go_"} : includes(lower, k)
    \/ includes(lower, "gene_ontology")

IsKegg(lower) == includes(lower, "kegg") \/ includes(lower, "pathway")

dgeKeywords ==
    {"dge", "diff", "deg", "result", "comp", "contrast", "vs", "change", "fc",
     "volcano", "ma_plot", "table", "output"}

IsDge(lower) ==
    /\ \E k \in dgeKeywords : includes(lower, k)
    /\ ~includes(lower, "summary")
    /\ ~includes(lower, "overview")

IsIdFallback(filename, lower) ==
    /\ detectComparisonId(filename) # null
    /\ \E x \in {"xlsx", "csv", "txt", "xls"} : endsWith(lower, x)

IsTabularExt(lower) ==
    \E x \in {".txt", ".csv", ".xlsx", ".xls", ".tsv"} : endsWith(lower, x)

detectFileType(filename) ==
    LET lower == toLowerCase(filename)
    IN  IF IsDeliverableExt(lower) THEN "deliverable_only"
        ELSE IF endsWith(lower, ".html") \/ endsWith(lower, ".htm") THEN "template"
        ELSE IF endsWith(lower, ".gtf")
             THEN IF includes(lower, "novel") \/ includes(lower, "isoform")
                  THEN "gtf_novel" ELSE "gtf_merged"
        ELSE IF IsMapping(lower) THEN "mapping"
        ELSE IF IsGlobalStats(lower) THEN "stats"
        ELSE IF IsDgeSummary(lower) THEN "dge_summary"
        ELSE IF IsGo(lower) THEN "comparison_go"
        ELSE IF IsKegg(lower) THEN "comparison_kegg"
        ELSE IF IsDge(lower) THEN "comparison_dge"
        ELSE IF IsIdFallback(filename, lower) THEN "comparison_dge"
        ELSE IF IsTabularExt(lower) THEN "deliverable_only"
        ELSE "unknown"

-----------------------------------------------------------------------------
(* Values of the upload model *)

undefined == "undefined"

\* JavaScript truthiness of a string-or-undefined value
Truthy(v) == v # undefined /\ v # ""

\* a || b on string-or-undefined values
OrElse(a, b) == IF Truthy(a) THEN a ELSE b

toUpperCaseChar(c) == IF c \in DOMAIN UpperOf THEN UpperOf[c] ELSE c

toUpperCase(s) == Concat([i \in 1..Len(s) |-> toUpperCaseChar(CharAt(s, i))])

\* String(x).match(/\d+/)?.[0] : the first run of digits, undefined if none
FirstDigits(s) ==
    LET ds == {p \in 1..Len(s) : IsDigit(CharAt(s, p))}
    IN  IF ds = {} THEN undefined
        ELSE SubSeq(s, Min(ds), DigitRunEnd(s, Min(ds)))

\* s.replace(/\D/g, '') : the digits of s, in order
OnlyDigits(s) ==
    Concat([i \in 1..Len(s) |-> IF IsDigit(CharAt(s, i)) THEN CharAt(s, i) ELSE ""])

\* a.*b as an unanchored regular expression on s
ThenIncludes(s, a, b) ==
    \E p \in 1..Len(s) :
        startsWithAt(s, p, a) /\ includes(SubSeq(s, p + Len(a), Len(s)), b)

NoStats == <<>>

ZeroStats == [total |-> 0, up |-> 0, down |-> 0, sigUp |-> 0, sigDown |-> 0, sigTotal |-> 0]

EmptyDge == [sigCount |-> 0, stats |-> ZeroStats, maPoints |-> <<>>, volcanoPoints |-> <<>>]

EmptyGtf == [name |-> "", count |-> 0, totalLen |-> 0, meanLen |-> 0, maxLen |-> 0]

\* A file: its name, how reading it ends (outcome), and what each parser
\* returns for its content.  outcome "ok": the read delivers the content;
\* "empty": the reader's load event carries no result; "error": the read or
\* the parse fails with error.message = message ("" when it has none).
File(name, outcome) ==
    [name |-> name, outcome |-> outcome, message |-> "",
     table |-> <<>>,                  \* parseTableData
     gtf |-> EmptyGtf,                \* parseGTF
     headers |-> <<>>, rows |-> <<>>, \* parseDGESummary: header row and data rows
     dge |-> EmptyDge,                \* parseComparisonDGE
     terms |-> <<>>,                  \* parseEnrichment
     text |-> ""]                     \* file.text()

DgeA ==
    [sigCount |-> 2,
     stats |-> [total |-> 4, up |-> 2, down |-> 1, sigUp |-> 1, sigDown |-> 1, sigTotal |-> 2],
     maPoints |-> <<"ma1", "ma2">>, volcanoPoints |-> <<"v1", "v2">>]

Files ==
    << [File("C1_DGE.xlsx", "ok") EXCEPT !.dge = DgeA],
       [File("Comparison1_GO_enrich.xlsx", "ok") EXCEPT !.terms = <<"GO:0001">>],
       [File("c1_kegg.csv", "ok") EXCEPT !.terms = <<"hsa04110">>],
       [File("DGE_summary.xlsx", "ok") EXCEPT
            !.headers = <<"Comparison", "Total DEGs", "Down", "Up",
                          "Sig Down", "Sig Up", "Total Sig">>,
            !.rows = << <<"Comparison 1", 9, 5, 4, 3, 2, 5>> >>],
       [File("deg_overview.csv", "ok") EXCEPT
            !.headers = <<"Comp", "Description", "Total", "Significant">>,
            !.rows = << <<"C1", "KO vs WT", 8, 6>>, <<"C2", "", 3, 1>> >>],
       [File("genes.gtf", "ok") EXCEPT
            !.gtf = [name |-> "genes.gtf", count |-> 2, totalLen |-> 30,
                     meanLen |-> 15, maxLen |-> 20]],
       [File("novel_isoforms.gtf", "error") EXCEPT !.message = "read failed"],
       [File("multiqc_data.xlsx", "ok") EXCEPT !.table = << <<"Sample", "Reads">> >>],
       [File("star_log.txt", "ok") EXCEPT !.table = << <<"Sample", "Mapped">> >>],
       [File("report.html", "ok") EXCEPT !.text = "<html>"],
       File("go_terms.xlsx", "ok"),
       File("reads.bam", "ok"),
       File("notes.md", "ok"),
       File("C2_DGE.xlsx", "error"),
       File("C2_volcano.txt", "empty") >>

FileIds == 1..Len(Files)

fileType == [f \in FileIds |-> detectFileType(Files[f].name)]

fileCompId == [f \in FileIds |-> detectComparisonId(Files[f].name)]

-----------------------------------------------------------------------------
(* handleSmartUpload: the dge_summary row mapping *)

\* the regular expressions handed to findKey, as predicates on a header
ReComp(k)       == includes(toLowerCase(k), "comp")
ReDesc(k)       == includes(toLowerCase(k), "desc")
ReTotalGenes(k) == \/ ThenIncludes(toLowerCase(k), "total", "deg")
                   \/ ThenIncludes(toLowerCase(k), "total", "gene")
ReTotalOnly(k)  == toLowerCase(k) = "total"
ReSigDown(k)    == ThenIncludes(toLowerCase(k), "sig", "down")
ReDownSig(k)    == ThenIncludes(toLowerCase(k), "down", "sig")
ReSigUp(k)      == ThenIncludes(toLowerCase(k), "sig", "up")
ReUpSig(k)      == ThenIncludes(toLowerCase(k), "up", "sig")
ReTotalSig(k)   == ThenIncludes(toLowerCase(k), "total", "sig")
ReSigStart(k)   == startsWithAt(toLowerCase(k), 1, "sig")
ReHashSig(k)    == ThenIncludes(toLowerCase(k), "#", "sig")
ReDownStart(k)  == startsWithAt(toLowerCase(k), 1, "down")
ReUpStart(k)    == startsWithAt(toLowerCase(k), 1, "up")

\* keys.find(k => pattern.test(k)) : the first matching key, else undefined
findKey(keys, Re(_)) ==
    LET hit == {i \in 1..Len(keys) : Re(keys[i])}
    IN  IF hit = {} THEN undefined ELSE keys[Min(hit)]

\* a || b on keys
KeyOr(a, b) == IF a # undefined THEN a ELSE b

\* r[key] for the row object smartSheetToJson builds from the header row:
\* a header repeated in the header row keeps the cell of its last column
CellIndex(keys, key) ==
    LET at == {i \in 1..Len(keys) : keys[i] = key}
    IN  IF key = undefined \/ at = {} THEN 0
        ELSE CHOOSE i \in at : \A j \in at : j <= i

\* r[key] of a text column; absent key or short row gives undefined
TextCell(keys, cells, key) ==
    LET i == CellIndex(keys, key)
    IN  IF i = 0 \/ i > Len(cells) THEN undefined ELSE cells[i]

\* Number(r[key] || 0) of a numeric column
NumberCell(keys, cells, key) ==
    LET i == CellIndex(keys, key)
    IN  IF i = 0 \/ i > Len(cells) THEN 0 ELSE cells[i]

DefaultDesc == "Test vs Control"

\* raw.map(r => ...) for one row r with Object.keys(r) = keys
SummaryRow(keys, cells) ==
    LET compKey      == KeyOr(findKey(keys, ReComp),
                              IF Len(keys) > 0 THEN keys[1] ELSE undefined)
        descKey      == findKey(keys, ReDesc)
        totalKey     == KeyOr(findKey(keys, ReTotalGenes), findKey(keys, ReTotalOnly))
        sigDownKey   == KeyOr(findKey(keys, ReSigDown), findKey(keys, ReDownSig))
        sigUpKey     == KeyOr(findKey(keys, ReSigUp), findKey(keys, ReUpSig))
        sigTotalKey  == KeyOr(findKey(keys, ReTotalSig),
                              KeyOr(findKey(keys, ReSigStart), findKey(keys, ReHashSig)))
        downFound    == findKey(keys, ReDownStart)
        downTotalKey == IF downFound = sigDownKey THEN undefined ELSE downFound
        upFound      == findKey(keys, ReUpStart)
        upTotalKey   == IF upFound = sigUpKey THEN undefined ELSE upFound
    IN  [comp      |-> OrElse(TextCell(keys, cells, compKey), "Unknown"),
         desc      |-> IF descKey # undefined THEN TextCell(keys, cells, descKey)
                       ELSE DefaultDesc,
         total     |-> NumberCell(keys, cells, totalKey),
         downTotal |-> NumberCell(keys, cells, downTotalKey),
         upTotal   |-> NumberCell(keys, cells, upTotalKey),
         sigDown   |-> NumberCell(keys, cells, sigDownKey),
         sigUp     |-> NumberCell(keys, cells, sigUpKey),
         sig       |-> NumberCell(keys, cells, sigTotalKey)]

\* the summary table of a dge_summary file
SummaryOf(file) == [i \in 1..Len(file.rows) |-> SummaryRow(file.headers, file.rows[i])]

\* ... for each file of the table
fileSummary == [f \in FileIds |-> SummaryOf(Files[f])]

-----------------------------------------------------------------------------
(* handleSmartUpload: merges into processedData.comparisons *)

NewComparison(id, name, description, sigCount) ==
    [id |-> id, name |-> name, description |-> description, sigCount |-> sigCount,
     stats |-> NoStats, maPoints |-> <<>>, volcanoPoints |-> <<>>,
     goTerms |-> <<>>, keggPathways |-> <<>>]

\* (variant: the object is built without spreading the records it held)
PutAlone(comparisons, id, rec) == [g \in {id} |-> rec]

\* { ...comparisons, [id]: rec }
Put(comparisons, id, rec) ==
    [g \in DOMAIN comparisons \cup {id} |-> IF g = id THEN rec ELSE comparisons[g]]

\* (variant: an existing record also takes the row's significant count)
MergeSummaryRowTakesSig(comparisons, row) ==
    LET rowNum   == FirstDigits(row.comp)
        targetId == "C" \o rowNum
    IN  IF rowNum = undefined THEN comparisons
        ELSE IF targetId \in DOMAIN comparisons
        THEN Put(comparisons, targetId,
                 [comparisons[targetId] EXCEPT
                     !.description = OrElse(row.desc, comparisons[targetId].description),
                     !.sigCount = row.sig])
        ELSE Put(comparisons, targetId,
                 NewComparison(targetId, "Comparison " \o rowNum,
                               OrElse(row.desc, DefaultDesc), row.sig))

\* the body of summary.forEach for one row
MergeSummaryRow(comparisons, row) ==
    LET rowNum   == FirstDigits(row.comp)
        targetId == "C" \o rowNum
    IN  IF rowNum = undefined THEN comparisons
        ELSE IF targetId \in DOMAIN comparisons
        THEN Put(comparisons, targetId,
                 [comparisons[targetId] EXCEPT
                     !.description = OrElse(row.desc, comparisons[targetId].description)])
        ELSE Put(comparisons, targetId,
                 NewComparison(targetId, "Comparison " \o rowNum,
                               OrElse(row.desc, DefaultDesc), row.sig))

RECURSIVE MergeSummaryRows(_, _, _)
MergeSummaryRows(comparisons, summary, i) ==
    IF i > Len(summary) THEN comparisons
    ELSE MergeSummaryRows(MergeSummaryRow(comparisons, summary[i]), summary, i + 1)

\* the dge_summary updater
MergeSummary(prev, summary) ==
    [prev EXCEPT !.dgeSummaryTable = summary,
                 !.comparisons = MergeSummaryRows(prev.comparisons, summary, 1)]

\* the first updater of the comparison_* branch: create the record if absent
EnsureComparison(prev, compId) ==
    LET compNum     == OnlyDigits(compId)
        defaultName == IF compNum # "" THEN "Comparison " \o compNum ELSE compId
        hits        == {i \in 1..Len(prev.dgeSummaryTable) :
                           \/ includes(prev.dgeSummaryTable[i].comp, compNum)
                           \/ includes(toLowerCase(prev.dgeSummaryTable[i].comp),
                                       toLowerCase(compId))}
        defaultDesc == IF hits # {} /\ Truthy(prev.dgeSummaryTable[Min(hits)].desc)
                       THEN prev.dgeSummaryTable[Min(hits)].desc
                       ELSE DefaultDesc
    IN  IF compId \in DOMAIN prev.comparisons THEN prev
        ELSE [prev EXCEPT !.comparisons =
                 Put(prev.comparisons, compId,
                     NewComparison(compId, defaultName, defaultDesc, 0))]

-----------------------------------------------------------------------------
(* a.localeCompare(b, undefined, {numeric: true}) and Array.prototype.sort *)

\* primary collation order of the characters that occur in comparison names:
\* white space, punctuation, then letters; digits are compared as numbers
CollationOrder == " _-.0123456789abcdefghijklmnopqrstuvwxyz"

RankOf == [c \in {CharAt(CollationOrder, i) : i \in 1..Len(CollationOrder)} |->
              CHOOSE i \in 1..Len(CollationOrder) : CharAt(CollationOrder, i) = c]

CollationRank(c) == IF LowerChar(c) \in DOMAIN RankOf THEN RankOf[LowerChar(c)] ELSE 0

DigitValue(c) == Min({i \in 1..10 : CharAt("0123456789", i) = c}) - 1

\* the number written by the first n digits
RECURSIVE NumberOfFirst(_, _)
NumberOfFirst(digits, n) ==
    IF n = 0 THEN 0
    ELSE 10 * NumberOfFirst(digits, n - 1) + DigitValue(CharAt(digits, n))

NumberOf(digits) == NumberOfFirst(digits, Len(digits))

Sign(n) == IF n < 0 THEN -1 ELSE IF n > 0 THEN 1 ELSE 0

\* primary comparison of a from position i with b from position j, runs of
\* digits taken as numbers
RECURSIVE PrimaryCompareFrom(_, _, _, _)
PrimaryCompareFrom(a, b, i, j) ==
    IF i > Len(a) \/ j > Len(b) THEN Sign((Len(a) - i) - (Len(b) - j))
    ELSE IF IsDigit(CharAt(a, i)) /\ IsDigit(CharAt(b, j))
    THEN IF NumberOf(SubSeq(a, i, DigitRunEnd(a, i))) # NumberOf(SubSeq(b, j, DigitRunEnd(b, j)))
         THEN Sign(NumberOf(SubSeq(a, i, DigitRunEnd(a, i)))
                      - NumberOf(SubSeq(b, j, DigitRunEnd(b, j))))
         ELSE PrimaryCompareFrom(a, b, DigitRunEnd(a, i) + 1, DigitRunEnd(b, j) + 1)
    ELSE IF CollationRank(CharAt(a, i)) # CollationRank(CharAt(b, j))
    THEN Sign(CollationRank(CharAt(a, i)) - CollationRank(CharAt(b, j)))
    ELSE PrimaryCompareFrom(a, b, i + 1, j + 1)

PrimaryCompare(a, b) == PrimaryCompareFrom(a, b, 1, 1)

\* case decides between strings equal at the primary level: lower case first
RECURSIVE CaseCompareFrom(_, _, _)
CaseCompareFrom(a, b, i) ==
    IF i > Len(a) \/ i > Len(b) THEN Sign(Len(a) - Len(b))
    ELSE IF CharAt(a, i) = CharAt(b, i) THEN CaseCompareFrom(a, b, i + 1)
    ELSE IF CharAt(a, i) = LowerChar(CharAt(a, i)) THEN -1 ELSE 1

CaseCompare(a, b) == CaseCompareFrom(a, b, 1)

localeCompare(a, b) ==
    IF PrimaryCompare(a, b) # 0 THEN PrimaryCompare(a, b) ELSE CaseCompare(a, b)

\* row i of the table comes before row j once the table is sorted: the sort
\* is stable, rows that compare equal keep their order
SortsBefore(table, i, j) ==
    \/ localeCompare(table[i].comp, table[j].comp) < 0
    \/ localeCompare(table[i].comp, table[j].comp) = 0 /\ i < j

\* table.sort((a, b) => a.comp.localeCompare(b.comp, undefined, {numeric: true}))
SortByComp(table) ==
    [p \in 1..Len(table) |->
        table[CHOOSE i \in 1..Len(table) :
                 Cardinality({j \in 1..Len(table) : SortsBefore(table, j, i)}) = p - 1]]

-----------------------------------------------------------------------------
(* handleSmartUpload: the updaters run after a parser returns *)

\* the comparison_dge updater
MergeDetail(prev, compId, dgeData) ==
    LET updatedComp == [prev.comparisons[compId] EXCEPT
                           !.sigCount = dgeData.sigCount,
                           !.stats = <<dgeData.stats>>,
                           !.maPoints = dgeData.maPoints,
                           !.volcanoPoints = dgeData.volcanoPoints]
        newSummaryEntry ==
            [comp |-> compId, desc |-> updatedComp.description,
             total |-> dgeData.stats.total, downTotal |-> dgeData.stats.down,
             upTotal |-> dgeData.stats.up, sigDown |-> dgeData.stats.sigDown,
             sigUp |-> dgeData.stats.sigUp, sig |-> dgeData.stats.sigTotal]
        found == {i \in 1..Len(prev.dgeSummaryTable) : prev.dgeSummaryTable[i].comp = compId}
        newSummaryTable ==
            IF found # {} THEN [prev.dgeSummaryTable EXCEPT ![Min(found)] = newSummaryEntry]
            ELSE Append(prev.dgeSummaryTable, newSummaryEntry)
    IN  [prev EXCEPT !.dgeSummaryTable = SortByComp(newSummaryTable),
                     !.comparisons = Put(prev.comparisons, compId, updatedComp)]

\* (variant: the updater builds the record anew instead of spreading the old one)
MergeGoOverwrite(prev, compId, goData) ==
    [prev EXCEPT !.comparisons =
        Put(prev.comparisons, compId,
            [NewComparison(compId, prev.comparisons[compId].name,
                           prev.comparisons[compId].description, 0)
                EXCEPT !.goTerms = goData])]

\* the comparison_go updater
MergeGo(prev, compId, goData) ==
    [prev EXCEPT !.comparisons =
        Put(prev.comparisons, compId, [prev.comparisons[compId] EXCEPT !.goTerms = goData])]

\* the comparison_kegg updater
MergeKegg(prev, compId, keggData) ==
    [prev EXCEPT !.comparisons =
        Put(prev.comparisons, compId,
            [prev.comparisons[compId] EXCEPT !.keggPathways = keggData])]

\* processedData after the parser of a file of the given type has returned
Merged(prev, type, compId, f) ==
    CASE type = "stats"           -> [prev EXCEPT !.dataStatsTable = Files[f].table]
      [] type = "mapping"         -> [prev EXCEPT !.mappingStatsTable = Files[f].table]
      [] type \in {"gtf_novel", "gtf_merged"}
                                  -> [prev EXCEPT !.transcriptStats = Append(@, Files[f].gtf)]
      [] type = "dge_summary"     -> MergeSummary(prev, fileSummary[f])
      [] type = "comparison_dge"  -> MergeDetail(prev, compId, Files[f].dge)
      [] type = "comparison_go"   -> MergeGo(prev, compId, Files[f].terms)
      [] type = "comparison_kegg" -> MergeKegg(prev, compId, Files[f].terms)
      [] OTHER                    -> prev

-----------------------------------------------------------------------------
(* State of the upload model *)

Calls == 1..MaxUploads

\* the classifier result before the detectors have run
NotRun == [name |-> "", groupId |-> "", type |-> ""]

\* the parser specs' out before the parser has run
NotParsed == [done |-> FALSE]

InitialData ==
    [dataStatsTable |-> <<>>, mappingStatsTable |-> <<>>, transcriptStats |-> <<>>,
     dgeSummaryTable |-> <<>>, comparisons |-> [g \in {} |-> NoStats]]

INITIAL_STATS == [mergedTranscripts |-> 653846, novelIsoforms |-> 3096]

\* an invocation: pc "new" (not started), "run" (at the head of the for loop,
\* about to take files[i]; only inside a step), "await" (awaiting the parser
\* of files[i]), "done" (returned).
\* ids[j] is the id given to files[j].  startData, endData and solo record the
\* dataset when the invocation started and returned, and whether it ran with
\* no other invocation and no edit in between.
NewCall ==
    [pc |-> "new", files |-> <<>>, i |-> 0, ids |-> <<>>,
     solo |-> FALSE, startData |-> InitialData, endData |-> InitialData]

Active(k) == call[k].pc = "await"

FilesTaken == LET RECURSIVE Sum(_)
                  Sum(k) == IF k = 0 THEN 0 ELSE Len(call[k].files) + Sum(k - 1)
              IN  Sum(MaxUploads)

Batches(n) == UNION {[1..m -> FileIds] : m \in 1..n}

InitUpload ==
    /\ tokens = <<>>
    /\ cls = NotRun
    /\ processedData = InitialData
    /\ stats = INITIAL_STATS
    /\ customTemplate = null
    /\ uploadStatus = <<>>
    /\ call = [k \in Calls |-> NewCall]
    /\ nextId = 1
    /\ edits = 0
    /\ sheet = <<>>
    /\ out = NotParsed

\* setUploadStatus(prev => prev.map(s => s.id === fileId ? {...s, ...} : s))
SetStatus(list, fileId, status, message) ==
    [n \in 1..Len(list) |->
        IF list[n].id = fileId
        THEN [list[n] EXCEPT !.status = status, !.message = message]
        ELSE list[n]]

\* (variant: only detail files are checked for a comparison id)
MissingCompIdDgeOnly(type, compId) ==
    type = "comparison_dge" /\ compId = null

MissingCompId(type, compId) ==
    startsWithAt(type, 1, "comparison_") /\ compId = null

MissingIdMessage(type) ==
    "Detected " \o toUpperCase(SubSeq(type, Len("comparison_") + 1, Len(type)))
        \o " file but missing Comparison ID (e.g. 'C1', 'Comp1') in filename."

\* the if/else-if chain after the comparison id check: a branch that awaits
\* a parser takes the file; the comparison_* branch asks for a comparison id
Parsed(type, compId) ==
    \/ type \in {"stats", "mapping", "gtf_novel", "gtf_merged", "dge_summary", "template"}
    \/ /\ compId # null
       /\ type \in {"comparison_dge", "comparison_go", "comparison_kegg"}

\* the parsers that read the file through readFileAsArrayBuffer
UsesFileReader(type) ==
    type \in {"stats", "mapping", "dge_summary",
              "comparison_dge", "comparison_go", "comparison_kegg"}

\* readFileAsArrayBuffer: onload settles the promise only if it has a result
NeverSettles(type, file) == UsesFileReader(type) /\ file.outcome = "empty"

\* (variant: the try/catch encloses the loop, an error leaves it)
AfterCatchLeavesLoop(i, n) == n + 1

\* the loop index after the catch block
AfterCatch(i, n) == i + 1

-----------------------------------------------------------------------------------------------------------------------------------------------------
(* handleSmartUpload: the synchronous stretches of the loop *)

\* What one stretch of the handler works on (w below): the dataset, the upload
\* list, the invocation c and the id source.  React applies the functional updaters
\* of setProcessedData and setUploadStatus in the order they were queued, each
\* to the result of the one before, so a stretch applies them in place.

\* one loop iteration of invocation w.c, from its start to its first await
\* or, for a file that needs no parser or fails before it, to its end
Iteration(w) ==
    LET c      == w.c
        f      == c.files[c.i]
        type   == fileType[f]
        compId == fileCompId[f]
        fileId == w.nextId
        newStatus == [id |-> fileId, name |-> Files[f].name, type |-> type,
                      assignedTo |-> IF compId # null THEN compId ELSE undefined,
                      status |-> "pending", message |-> undefined]
        ends(entry, next) ==
            [w EXCEPT !.list = Append(@, entry), !.nextId = @ + 1,
                      !.c.i = next, !.c.ids = Append(@, fileId)]
    IN  IF type = "unknown"
        THEN ends([newStatus EXCEPT !.status = "success", !.type = "deliverable_only",
                                    !.message = "Type unknown, added to tree only"],
                  c.i + 1)
        ELSE IF type = "deliverable_only"
        THEN ends([newStatus EXCEPT !.status = "success"], c.i + 1)
        ELSE IF MissingCompId(type, compId)
        THEN ends([newStatus EXCEPT !.status = "error",
                                    !.message = MissingIdMessage(type)],
                  AfterCatch(c.i, Len(c.files)))
        ELSE IF Parsed(type, compId)
        THEN [w EXCEPT !.list = Append(@, newStatus), !.nextId = @ + 1,
                       !.data = IF startsWithAt(type, 1, "comparison_")
                                THEN EnsureComparison(@, compId) ELSE @,
                       !.c.pc = "await", !.c.ids = Append(@, fileId)]
        ELSE ends([newStatus EXCEPT !.status = "error",
                                    !.message = "File processing logic error."],
                  AfterCatch(c.i, Len(c.files)))

\* the for loop from the head of iteration w.c.i: it runs until an iteration
\* awaits its parser or no file is left, and then handleSmartUpload returns
\* (the iteration is computed once, as the one element of a set, and the loop
\* goes on from its result)
RECURSIVE RunLoop(_)
RunLoop(w) ==
    IF w.c.pc = "await" THEN w
    ELSE IF w.c.i > Len(w.c.files)
    THEN [w EXCEPT !.c.pc = "done", !.c.endData = w.data]
    ELSE CHOOSE end \in {RunLoop(next) : next \in {Iteration(w)}} : TRUE

-----------------------------------------------------------------------------
(* Actions of the upload model *)

\* the state after invocation k has run a stretch that ended in w
Continue(k, w) ==
    /\ processedData' = w.data
    /\ uploadStatus' = w.list
    /\ nextId' = w.nextId
    /\ call' = [c \in Calls |->
                  IF c = k THEN w.c
                  ELSE IF call[k].pc = "new" /\ Active(c) THEN [call[c] EXCEPT !.solo = FALSE]
                  ELSE call[c]]

\* handleSmartUpload is invoked with a batch of files and runs to its first await
Upload(k) ==
    /\ call[k].pc = "new"
    /\ \A o \in 1..(k - 1) : call[o].pc # "new"
    /\ \E batch \in Batches(MaxFiles - FilesTaken) :
       \E w \in {RunLoop([data |-> processedData, list |-> uploadStatus,
                          nextId |-> nextId,
                          c |-> [NewCall EXCEPT
                                    !.pc = "run", !.files = batch, !.i = 1,
                                    !.solo = \A o \in Calls : ~Active(o),
                                    !.startData = processedData]])} :
          Continue(k, w)
    /\ UNCHANGED <<sheet, out, tokens, cls, stats, customTemplate, edits>>

\* the awaited parser returns: the updaters run, the file succeeds and the
\* loop goes on
Resolve(k) ==
    /\ call[k].pc = "await"
    /\ LET f      == call[k].files[call[k].i]
           type   == fileType[f]
           file   == Files[f]
           fileId == call[k].ids[call[k].i]
       IN  /\ file.outcome # "error"
           /\ ~NeverSettles(type, file)
           /\ stats' = IF type = "gtf_novel"
                       THEN [stats EXCEPT !.novelIsoforms = file.gtf.count]
                       ELSE IF type = "gtf_merged"
                       THEN [stats EXCEPT !.mergedTranscripts = file.gtf.count]
                       ELSE stats
           /\ customTemplate' = IF type = "template" THEN file.text ELSE customTemplate
           /\ \E data \in {Merged(processedData, type, fileCompId[f], f)} :
              \E w \in {RunLoop(
                         [data |-> data,
                          list |-> SetStatus(uploadStatus, fileId, "success", undefined),
                          nextId |-> nextId,
                          c |-> [call[k] EXCEPT !.pc = "run", !.i = @ + 1]])} :
                 Continue(k, w)
    /\ UNCHANGED <<sheet, out, tokens, cls, edits>>

\* the awaited parser throws: the catch block reports the file and the loop
\* goes on
Reject(k) ==
    /\ call[k].pc = "await"
    /\ LET f      == call[k].files[call[k].i]
           file   == Files[f]
           fileId == call[k].ids[call[k].i]
       IN  /\ file.outcome = "error"
           /\ \E w \in {RunLoop(
                         [data |-> processedData,
                          list |-> SetStatus(uploadStatus, fileId, "error",
                                             OrElse(file.message, "Parsing failed")),
                          nextId |-> nextId,
                          c |-> [call[k] EXCEPT !.pc = "run",
                                                !.i = AfterCatch(@, Len(call[k].files))]])} :
                 Continue(k, w)
    /\ UNCHANGED <<sheet, out, tokens, cls, stats, customTemplate, edits>>

removeFile(id) ==
    /\ \E n \in 1..Len(uploadStatus) : uploadStatus[n].id = id
    /\ (nextId - 1) - Len(uploadStatus) < MaxRemovals
    /\ uploadStatus' = SelectSeq(uploadStatus, LAMBDA s : s.id # id)
    /\ UNCHANGED <<sheet, out, tokens, cls, processedData, stats, customTemplate, call, nextId, edits>>

EditValues == {"Treated vs Untreated"}

\* called by the two inputs rendered for each record of processedData.comparisons
updateComparisonDetails(id, field, value) ==
    /\ edits < MaxEdits
    /\ id \in DOMAIN processedData.comparisons
    /\ processedData' =
          [processedData EXCEPT !.comparisons[id] =
              IF field = "name" THEN [@ EXCEPT !.name = value]
              ELSE [@ EXCEPT !.description = value]]
    /\ edits' = edits + 1
    /\ call' = [c \in Calls |-> IF Active(c) THEN [call[c] EXCEPT !.solo = FALSE]
                                ELSE call[c]]
    /\ UNCHANGED <<sheet, out, tokens, cls, stats, customTemplate, uploadStatus, nextId>>

NextUpload ==
    \/ \E k \in Calls : Upload(k)
    \/ \E k \in Calls : Resolve(k)
    \/ \E k \in Calls : Reject(k)
    \/ \E n \in 1..MaxFiles : removeFile(n)
    \/ \E id \in DOMAIN processedData.comparisons, field \in {"name", "description"},
          value \in EditValues : updateComparisonDetails(id, field, value)

Spec == InitUpload /\ [][NextUpload]_vars

\* a promise that settles is eventually continued by the event loop; uploads,
\* removals and edits are the user's and may never come
FairSpec ==
    /\ InitUpload /\ [][NextUpload]_vars
    /\ \A k \in Calls : WF_vars(Resolve(k)) /\ WF_vars(Reject(k))

-----------------------------------------------------------------------------
(* The classifier specifications: a filename is put together from tokens and *)
(* handed to detectComparisonId and detectFileType                           *)

\* tokens for group ids: every alias of the expression, the separators,
\* white space, digits and a letter that belongs to no alias
IdVocab ==
    {"Comparison", "comp", "C", "Contrast", "Group", "g",
     "-", "_", " ", "7", "1", "x"}

\* tokens for file types: keywords of every rule, group ids and extensions
Vocab ==
    {"mapping", "star", "stats", "summary", "Overview", "all", "report", "data",
     "multiqc", "DGE", "diff", "deg", "go", "GO_", "_go", "enrich", "term", "result",
     "gene_ontology", "kegg", "pathway", "vs", "novel", "C7", "Group_7", "x",
     ".fastq", ".fq", ".fastq.gz", ".fq.gz", ".bam", ".BAM", ".sam", ".bai",
     ".fa", ".fasta", ".fna", ".pdf", ".png", ".jpg", ".jpeg", ".svg",
     ".html", ".gtf", ".txt", ".csv", ".tsv", ".xlsx", ".xls"}

InitClassify ==
    /\ tokens = <<>>
    /\ cls = NotRun
    /\ processedData = InitialData
    /\ stats = INITIAL_STATS
    /\ customTemplate = null
    /\ uploadStatus = <<>>
    /\ call = [k \in Calls |-> NewCall]
    /\ nextId = 1
    /\ edits = 0
    /\ sheet = <<>>
    /\ out = NotParsed

uploadVars == <<processedData, stats, customTemplate, uploadStatus, call, nextId, edits>>

AppendToken(t, max) ==
    /\ Len(tokens) < max
    /\ tokens' = Append(tokens, t)
    /\ cls' = NotRun
    /\ UNCHANGED <<sheet, out, uploadVars>>

\* the first two statements of the loop body of handleSmartUpload
Detect ==
    /\ cls = NotRun
    /\ cls' = [name    |-> Concat(tokens),
               groupId |-> detectComparisonId(Concat(tokens)),
               type    |-> detectFileType(Concat(tokens))]
    /\ UNCHANGED <<sheet, out, tokens, uploadVars>>

NextGroupId == (\E t \in IdVocab : AppendToken(t, MaxIdTokens)) \/ Detect

NextClassify == (\E t \in Vocab : AppendToken(t, MaxTokens)) \/ Detect

SpecGroupId == InitClassify /\ [][NextGroupId]_vars

SpecClassify == InitClassify /\ [][NextClassify]_vars

-----------------------------------------------------------------------------
(* Numbers of the parsers: a JavaScript number is NaN or a decimal m * 10^e. *)
(* The cell texts of the model are short decimal numerals, which parseFloat  *)
(* reads without rounding; "Infinity" is not among them.                     *)

NaN == [nan |-> TRUE, m |-> 0, e |-> 0]

Num(m, e) == [nan |-> FALSE, m |-> m, e |-> e]

isNaN(x) == x.nan

Abs(n) == IF n < 0 THEN -n ELSE n

RECURSIVE Pow10(_)
Pow10(n) == IF n = 0 THEN 1 ELSE 10 * Pow10(n - 1)

\* number of decimal digits of a positive integer
RECURSIVE DigitCount(_)
DigitCount(n) == IF n < 10 THEN 1 ELSE 1 + DigitCount(n \div 10)

\* the same value with a mantissa that does not end in 0
RECURSIVE Normal(_)
Normal(x) ==
    IF x.m = 0 THEN Num(0, 0)
    ELSE IF x.m % 10 = 0 THEN Normal(Num(x.m \div 10, x.e + 1))
    ELSE x

\* -1, 0, 1 as a < b, a = b, a > b for positive decimals
ComparePositive(a, b) ==
    LET ma == DigitCount(a.m) + a.e
        mb == DigitCount(b.m) + b.e
        lo == IF a.e < b.e THEN a.e ELSE b.e
    IN  IF ma # mb THEN Sign(ma - mb)
        ELSE Sign(a.m * Pow10(a.e - lo) - b.m * Pow10(b.e - lo))

\* -1, 0, 1 as a < b, a = b, a > b for numbers that are not NaN
Compare(a, b) ==
    IF Sign(a.m) # Sign(b.m) THEN Sign(Sign(a.m) - Sign(b.m))
    ELSE IF a.m = 0 THEN 0
    ELSE Sign(a.m) * ComparePositive(Num(Abs(a.m), a.e), Num(Abs(b.m), b.e))

\* a < b and a > b of JavaScript: false when an operand is NaN
Less(a, b) == ~isNaN(a) /\ ~isNaN(b) /\ Compare(a, b) < 0

Greater(a, b) == Less(b, a)

MathAbs(x) == IF isNaN(x) THEN NaN ELSE Num(Abs(x.m), x.e)

\* last position of the run of digits that starts at p, p - 1 if there is none
DigitsEnd(s, p) ==
    IF p <= Len(s) /\ IsDigit(CharAt(s, p)) THEN DigitRunEnd(s, p) ELSE p - 1

\* the exponent of a literal whose mantissa ends at mantEnd and whose
\* exponent digits would start at eStart: where the literal ends and the
\* exponent's value; without digits there the literal ends at mantEnd
ExponentFrom(v, mantEnd, eStart, eEnd, negative) ==
    IF eEnd < eStart THEN [end |-> mantEnd, value |-> 0]
    ELSE [end   |-> eEnd,
          value |-> (IF negative THEN -1 ELSE 1) * NumberOf(SubSeq(v, eStart, eEnd))]

Exponent(v, mantEnd) ==
    IF mantEnd + 1 <= Len(v) /\ CharAt(v, mantEnd + 1) \in {"e", "E"}
    THEN IF mantEnd + 2 <= Len(v) /\ CharAt(v, mantEnd + 2) \in {"+", "-"}
         THEN ExponentFrom(v, mantEnd, mantEnd + 3, DigitsEnd(v, mantEnd + 3),
                           CharAt(v, mantEnd + 2) = "-")
         ELSE ExponentFrom(v, mantEnd, mantEnd + 2, DigitsEnd(v, mantEnd + 2), FALSE)
    ELSE [end |-> mantEnd, value |-> 0]

\* the literal with the digits whole before and frac after the point
LiteralValue(neg, whole, frac, exponent) ==
    IF Len(whole \o frac) = 0 THEN [end |-> 0, value |-> NaN]
    ELSE [end   |-> exponent.end,
          value |-> Normal(Num((IF neg THEN -1 ELSE 1) * NumberOf(whole \o frac),
                               exponent.value - Len(frac)))]

\* the literal whose integer digits are p1..intEnd and whose mantissa ends at
\* fracEnd (intEnd without a point, the point itself when no digit follows it)
LiteralMantissa(v, neg, p1, intEnd, fracEnd) ==
    LiteralValue(neg, SubSeq(v, p1, intEnd),
                 IF fracEnd > intEnd THEN SubSeq(v, intEnd + 2, fracEnd) ELSE "",
                 Exponent(v, fracEnd))

LiteralDigits(v, neg, p1, intEnd) ==
    LiteralMantissa(v, neg, p1, intEnd,
                    IF intEnd + 1 <= Len(v) /\ CharAt(v, intEnd + 1) = "."
                    THEN DigitsEnd(v, intEnd + 2) ELSE intEnd)

LiteralAt(v, p0) ==
    IF p0 <= Len(v) /\ CharAt(v, p0) \in {"+", "-"}
    THEN LiteralDigits(v, CharAt(v, p0) = "-", p0 + 1, DigitsEnd(v, p0 + 1))
    ELSE LiteralDigits(v, FALSE, p0, DigitsEnd(v, p0))

\* the longest prefix of v that is white space, an optional sign and a
\* decimal literal (digits, fraction, exponent): where it ends and its value;
\* NaN and 0 without such a prefix
Literal(v) == LiteralAt(v, SkipSpaces(v, 1))

\* parseFloat(v); a cell that does not exist reads as NaN
parseFloat(v) == IF v = undefined THEN NaN ELSE Literal(v).value

\* the decimal digits of a natural number
RECURSIVE DigitsOf(_)
DigitsOf(n) ==
    IF n < 10 THEN CharAt("0123456789", n + 1)
    ELSE DigitsOf(n \div 10) \o CharAt("0123456789", (n % 10) + 1)

\* the digits of n < 1000 in three places
Pad3(n) == SubSeq("00", 1, 3 - DigitCount(n)) \o DigitsOf(n)

\* x.toFixed(3): the integer n with n / 1000 nearest to |x| (the larger one of
\* two), written with three decimals and the sign of x
toFixed3(x) ==
    IF isNaN(x) THEN "NaN"
    ELSE LET a == Abs(x.m)
             n == IF a = 0 THEN 0
                  ELSE IF x.e >= -3 THEN a * Pow10(x.e + 3)
                  ELSE IF DigitCount(a) + x.e < -3 THEN 0
                  ELSE (a + 5 * Pow10(-x.e - 4)) \div Pow10(-x.e - 3)
         IN  (IF x.m < 0 THEN "-" ELSE "") \o DigitsOf(n \div 1000) \o "." \o Pad3(n % 1000)

\* Math.log10 of the mantissas the FDR cells of the model have, in millionths
Log10Micro ==
    (1 :> 0) @@ (2 :> 301030) @@ (5 :> 698970) @@ (49 :> 1690196) @@ (10001 :> 4000043)

\* -Math.log10(x): NaN below zero; x is not zero where the code calls it
NegLog10(x) ==
    IF isNaN(x) \/ x.m < 0 THEN NaN
    ELSE Normal(Num(-(x.e * 1000000 + Log10Micro[x.m]), -6))

\* Math.min(a, b): NaN when an operand is NaN
MathMin(a, b) ==
    IF isNaN(a) \/ isNaN(b) THEN NaN ELSE IF Compare(a, b) <= 0 THEN a ELSE b

-----------------------------------------------------------------------------
(* smartSheetToJson.  rawData is what sheet_to_json gives with header: 1: a  *)
(* sequence of rows, a row a sequence of cells up to its last cell that      *)
(* exists; a cell is its text, or undefined where the sheet has no cell. A   *)
(* row without cells is <<>>.                                                *)

\* row.join(' '), from the i-th cell on: a cell that does not exist joins as ""
RECURSIVE JoinFrom(_, _)
JoinFrom(row, i) ==
    IF i > Len(row) THEN ""
    ELSE (IF row[i] = undefined THEN "" ELSE row[i])
         \o (IF i < Len(row) THEN " " ELSE "") \o JoinFrom(row, i + 1)

join(row) == JoinFrom(row, 1)

\* keywords.filter(k => rowStr.includes(k.toLowerCase())).length >= 1
RowMatches(row, keywords) ==
    \E k \in keywords : includes(toLowerCase(join(row)), toLowerCase(k))

\* the number of rows the scan looks at: Math.min(rawData.length, 20)
ScanWindow == 20

\* the scan loop from position i (rows 0..19 of the source are positions
\* 1..20): the position of the first row that matches, 1 if none does
RECURSIVE ScanFrom(_, _, _)
ScanFrom(rawData, keywords, i) ==
    IF i > Len(rawData) \/ i > ScanWindow THEN 1
    ELSE IF RowMatches(rawData[i], keywords) THEN i
    ELSE ScanFrom(rawData, keywords, i + 1)

\* (variant: the scan goes over every row of the sheet)
headerRowIndexWholeSheet(rawData, keywords) ==
    LET hit == {i \in 1..Len(rawData) : RowMatches(rawData[i], keywords)}
    IN  IF hit = {} THEN 0 ELSE Min(hit) - 1

\* headerRowIndex, counted from 0 as in the source
headerRowIndex(rawData, keywords) == ScanFrom(rawData, keywords, 1) - 1

\* s.trim()
trim(s) ==
    LET ink == {i \in 1..Len(s) : ~IsSpace(CharAt(s, i))}
    IN  IF ink = {} THEN ""
        ELSE SubSeq(s, Min(ink), CHOOSE i \in ink : \A j \in ink : j <= i)

\* rawData[headerRowIndex].map(h => String(h).trim()): map leaves out the
\* cells that do not exist
Headers(row) == [i \in 1..Len(row) |-> IF row[i] = undefined THEN undefined ELSE trim(row[i])]

\* the rows the loop does not skip: !row || row.length === 0
KeepsRow(row) == Len(row) > 0

\* the objects built from the rows after the header row; an object is the
\* header row it is keyed by and the cells of its row, src is the index of
\* the row in rawData
smartSheetToJson(rawData, keywords) ==
    IF Len(rawData) = 0 THEN <<>>
    ELSE LET h       == headerRowIndex(rawData, keywords)
             headers == Headers(rawData[h + 1])
             after   == [j \in 1..(Len(rawData) - h - 1) |-> h + j]
             kept    == SelectSeq(after, LAMBDA i : KeepsRow(rawData[i + 1]))
         IN  [j \in 1..Len(kept) |->
                 [keys |-> headers, cells |-> rawData[kept[j] + 1], src |-> kept[j]]]

\* Object.keys(obj): the headers in the order of their first column (no
\* header of the model is written as an integer)
ObjectKeys(obj) ==
    LET first == SelectSeq([i \in 1..Len(obj.keys) |-> i],
                     LAMBDA i : /\ obj.keys[i] # undefined
                                /\ \A j \in 1..(i - 1) : obj.keys[j] # obj.keys[i])
    IN  [n \in 1..Len(first) |-> obj.keys[first[n]]]

\* row[key]
Get(obj, key) == TextCell(obj.keys, obj.cells, key)

-----------------------------------------------------------------------------
(* parseComparisonDGE, from the grid of the first sheet on *)

DgeKeywords == {"logfc", "fdr", "pvalue", "padj", "foldchange"}

\* /log2?fc|foldchange|log2_fold_change/i
ReLogFC(k) ==
    \E w \in {"logfc", "log2fc", "foldchange", "log2_fold_change"} : includes(toLowerCase(k), w)

\* /fdr|padj|adj\.?p|q_?value/i
ReFdr(k) ==
    \E w \in {"fdr", "padj", "adjp", "adj.p", "qvalue", "q_value"} : includes(toLowerCase(k), w)

\* /logcpm|log2?cpm|cpm/i
ReCpm(k) == includes(toLowerCase(k), "cpm")

\* keys[i] of the source (i counted from 0), undefined past the end
KeyAt(keys, i) == IF i + 1 \in 1..Len(keys) THEN keys[i + 1] ELSE undefined

logFCKeyOf(keys) == OrElse(findKey(keys, ReLogFC), KeyAt(keys, 1))

fdrKeyOf(keys) == OrElse(findKey(keys, ReFdr), KeyAt(keys, Len(keys) - 1))

cpmKeyOf(keys) == findKey(keys, ReCpm)

\* (variant: the threshold on the fold change is not strict)
IsSigFoldChangeNotStrict(fc, fdr) ==
    Less(fdr, Num(5, -2)) /\ ~Less(MathAbs(fc), Num(1, 0))

\* isSig = fdr < 0.05 && Math.abs(fc) > 1
IsSig(fc, fdr) == Less(fdr, Num(5, -2)) /\ Greater(MathAbs(fc), Num(1, 0))

\* (variant: a row is left out only when its fold change is no number)
SkipsRowFoldChangeOnly(fc, fdr) == isNaN(fc)

\* if (isNaN(fc) || isNaN(fdr)) return
SkipsRow(fc, fdr) == isNaN(fc) \/ isNaN(fdr)

\* if (fc > 0) stats.up++; else if (fc < 0) stats.down++
CountsUp(fc) == Greater(fc, Num(0, 0))

CountsDown(fc) == ~Greater(fc, Num(0, 0)) /\ Less(fc, Num(0, 0))

\* if (isSig) { stats.sigTotal++; if (fc > 0) stats.sigUp++; else stats.sigDown++ }
CountsSigUp(sig, fc) == sig /\ Greater(fc, Num(0, 0))

\* (variant: the else branch taken by rows that are not significant as well)
CountsSigDownUnlessUp(sig, fc) == ~Greater(fc, Num(0, 0))

CountsSigDown(sig, fc) == sig /\ ~Greater(fc, Num(0, 0))

\* negLogFdr = fdr === 0 ? 50 : Math.min(-Math.log10(fdr), 50)
negLogFdrOf(fdr) == IF ~isNaN(fdr) /\ fdr.m = 0 THEN Num(5, 1) ELSE MathMin(NegLog10(fdr), Num(5, 1))

\* /gene|transcript|id|symbol|name|target_id/i
ReId(k) ==
    \E w \in {"gene", "transcript", "id", "symbol", "name", "target_id"} :
        includes(toLowerCase(k), w)

idKeyOf(keys) == OrElse(findKey(keys, ReId), KeyAt(keys, 0))

\* one turn of the forEach for the cells of the fold change and FDR columns:
\* whether the row is counted, which counters it adds to, and x, y of its point
RowResult(fcCell, fdrCell) ==
    LET fc  == parseFloat(fcCell)
        fdr == parseFloat(fdrCell)
        sig == IsSig(fc, fdr)
    IN  IF SkipsRow(fc, fdr)
        THEN [counted |-> FALSE, up |-> FALSE, down |-> FALSE, sig |-> FALSE,
              sigUp |-> FALSE, sigDown |-> FALSE, x |-> NaN, y |-> NaN]
        ELSE [counted |-> TRUE,
              up      |-> CountsUp(fc),
              down    |-> CountsDown(fc),
              sig     |-> sig,
              sigUp   |-> CountsSigUp(sig, fc),
              sigDown |-> CountsSigDown(sig, fc),
              x       |-> parseFloat(toFixed3(fc)),
              y       |-> parseFloat(toFixed3(negLogFdrOf(fdr)))]

\* the cell texts of the model: fold changes, FDR values, expression levels
FcCells == {"2.5", "-2.5", "1", "-1", "0", "abc", "2.5x", undefined}

FdrCells ==
    {"0.01", "0.05", "0.049", "0", "0.5", "NA", "0.01x", "0.010001", "1e-60", "1e-70",
     undefined}

CpmCells == {"5.25", "n/a", undefined}

\* RowResult and parseFloat(cpm.toFixed(3)) for the cell texts of the model
rowResult == [fc \in FcCells |-> [fdr \in FdrCells |-> RowResult(fc, fdr)]]

cpmFixed == [c \in CpmCells |-> parseFloat(toFixed3(parseFloat(c)))]

\* the cell of an object in a column of the header row (0: no such column)
CellAt(obj, col) ==
    IF col = 0 \/ col > Len(obj.cells) THEN undefined ELSE obj.cells[col]

\* the number of elements of a sequence that pass a test
Count(seq, Test(_)) == Len(SelectSeq(seq, Test))

SIG_LIMIT == 3000

MAX_POINTS == 5000

\* sigPoints.sort((a, b) => b.y - a.y): the sort keeps the order of points
\* with equal y, so the result is, for each y from the highest down, the
\* points with that y in their order (no y is NaN: FDR cells are not negative)
RECURSIVE SortFrom(_, _)
SortFrom(points, ys) ==
    IF ys = {} THEN <<>>
    ELSE LET top == CHOOSE t \in ys : \A o \in ys : Compare(o, t) <= 0
         IN  SelectSeq(points, LAMBDA p : p.y = top) \o SortFrom(points, ys \ {top})

SortByY(points) == SortFrom(points, {points[i].y : i \in 1..Len(points)})

\* (variant: the first SIG_LIMIT significant points in input order)
KeptSigUnsorted(sigPoints) ==
    IF Len(sigPoints) <= SIG_LIMIT THEN sigPoints ELSE SubSeq(sigPoints, 1, SIG_LIMIT)

\* the significant points that are kept
KeptSig(sigPoints) ==
    IF Len(sigPoints) <= SIG_LIMIT THEN sigPoints
    ELSE SubSeq(SortByY(sigPoints), 1, SIG_LIMIT)

\* (variant: the quotient rounded up)
StepOfCeiling(n, slotsLeft) ==
    IF n <= slotsLeft THEN 1 ELSE (n + slotsLeft - 1) \div slotsLeft

\* step = Math.max(1, Math.floor(nonSigPoints.length / slotsLeft))
StepOf(n, slotsLeft) == IF n \div slotsLeft >= 1 THEN n \div slotsLeft ELSE 1

\* (variant: the loop without its break at MAX_POINTS)
PushedNoBreak(nonSigPoints, slotsLeft) ==
    IF slotsLeft > 0 /\ Len(nonSigPoints) > 0
    THEN LET step == StepOf(Len(nonSigPoints), slotsLeft)
         IN  [k \in 1..((Len(nonSigPoints) + step - 1) \div step) |->
                 nonSigPoints[(k - 1) * step + 1]]
    ELSE <<>>

\* the non-significant points the loop pushes: i = 0, step, 2 * step, ...
\* below nonSigPoints.length, until finalPoints holds MAX_POINTS
Pushed(nonSigPoints, slotsLeft) ==
    IF slotsLeft > 0 /\ Len(nonSigPoints) > 0
    THEN LET step  == StepOf(Len(nonSigPoints), slotsLeft)
             turns == (Len(nonSigPoints) + step - 1) \div step
         IN  [k \in 1..(IF turns < slotsLeft THEN turns ELSE slotsLeft) |->
                 nonSigPoints[(k - 1) * step + 1]]
    ELSE <<>>

\* finalPoints
Downsample(sigPoints, nonSigPoints) ==
    LET kept == KeptSig(sigPoints)
    IN  kept \o Pushed(nonSigPoints, MAX_POINTS - Len(kept))

EmptyDgeResult ==
    [done |-> TRUE, sigCount |-> 0, stats |-> ZeroStats, maPoints |-> <<>>,
     volcanoPoints |-> <<>>]

\* logFCKey, fdrKey, cpmKey and idKey as columns of the header row (0: no
\* such column); all objects are keyed by the same header row, so the columns
\* are found once
Columns(row0, keys) ==
    [fc     |-> CellIndex(row0.keys, logFCKeyOf(keys)),
     fdr    |-> CellIndex(row0.keys, fdrKeyOf(keys)),
     cpm    |-> CellIndex(row0.keys, cpmKeyOf(keys)),
     hasCpm |-> cpmKeyOf(keys) # undefined,
     id     |-> CellIndex(row0.keys, idKeyOf(keys))]

\* one turn of the forEach on an object, r the result for its fold change and
\* FDR cells; src of a point is the index of its row in rawData
TurnWith(obj, cols, r) ==
    [counted |-> r.counted, up |-> r.up, down |-> r.down,
     sigUp |-> r.sigUp, sigDown |-> r.sigDown,
     point |-> [src   |-> obj.src,
                x     |-> r.x,
                y     |-> r.y,
                maX   |-> IF cols.hasCpm THEN cpmFixed[CellAt(obj, cols.cpm)] ELSE r.x,
                sig   |-> r.sig,
                label |-> OrElse(CellAt(obj, cols.id), "Unknown")]]

Turn(obj, cols) ==
    TurnWith(obj, cols, rowResult[CellAt(obj, cols.fc)][CellAt(obj, cols.fdr)])

\* the turns that pass the isNaN test
Counted(jsonData, cols) ==
    SelectSeq([j \in 1..Len(jsonData) |-> Turn(jsonData[j], cols)], LAMBDA t : t.counted)

\* stats after the forEach
Counters(counted) ==
    [total    |-> Len(counted),
     up       |-> Count(counted, LAMBDA t : t.up),
     down     |-> Count(counted, LAMBDA t : t.down),
     sigUp    |-> Count(counted, LAMBDA t : t.sigUp),
     sigDown  |-> Count(counted, LAMBDA t : t.sigDown),
     sigTotal |-> Count(counted, LAMBDA t : t.point.sig)]

\* finalPoints of the points of the counted turns: sigPoints and nonSigPoints
\* are the points in the order of their rows
FinalPoints(points) ==
    Downsample(SelectSeq(points, LAMBDA p : p.sig), SelectSeq(points, LAMBDA p : ~p.sig))

\* (variant: the MA projection takes y of the point where the code takes x)
DgeResultMaOfY(counts, finalPoints) ==
    [done          |-> TRUE,
     sigCount      |-> counts.sigTotal,
     stats         |-> counts,
     maPoints      |-> [j \in 1..Len(finalPoints) |->
                           [src |-> finalPoints[j].src, x |-> finalPoints[j].maX,
                            y |-> finalPoints[j].y, sig |-> finalPoints[j].sig,
                            label |-> finalPoints[j].label]],
     volcanoPoints |-> [j \in 1..Len(finalPoints) |->
                           [src |-> finalPoints[j].src, x |-> finalPoints[j].x,
                            y |-> finalPoints[j].y, sig |-> finalPoints[j].sig,
                            label |-> finalPoints[j].label]]]

\* what is returned: the counters and the two projections of finalPoints
DgeResult(counts, finalPoints) ==
    [done          |-> TRUE,
     sigCount      |-> counts.sigTotal,
     stats         |-> counts,
     maPoints      |-> [j \in 1..Len(finalPoints) |->
                           [src |-> finalPoints[j].src, x |-> finalPoints[j].maX,
                            y |-> finalPoints[j].x, sig |-> finalPoints[j].sig,
                            label |-> finalPoints[j].label]],
     volcanoPoints |-> [j \in 1..Len(finalPoints) |->
                           [src |-> finalPoints[j].src, x |-> finalPoints[j].x,
                            y |-> finalPoints[j].y, sig |-> finalPoints[j].sig,
                            label |-> finalPoints[j].label]]]

DgeResultOf(counted) ==
    DgeResult(Counters(counted), FinalPoints([j \in 1..Len(counted) |-> counted[j].point]))

DgeOfJson(jsonData) ==
    IF Len(jsonData) = 0 THEN EmptyDgeResult
    ELSE DgeResultOf(Counted(jsonData, Columns(jsonData[1], ObjectKeys(jsonData[1]))))

parseComparisonDGE(rawData) == DgeOfJson(smartSheetToJson(rawData, DgeKeywords))

-----------------------------------------------------------------------------
(* The specifications of parseComparisonDGE.  sheet holds the grid as runs   *)
(* of equal rows, [n |-> number of rows, row |-> the cells of each].         *)

\* the rows of the runs from the i-th on
RECURSIVE RowsFrom(_, _)
RowsFrom(runs, i) ==
    IF i > Len(runs) THEN <<>>
    ELSE [j \in 1..runs[i].n |-> runs[i].row] \o RowsFrom(runs, i + 1)

\* rawData of the sheet
RawData(runs) == RowsFrom(runs, 1)

One(row) == [n |-> 1, row |-> row]

\* sequences of at most max elements of S
SeqsUpTo(S, max) == UNION {[1..n -> S] : n \in 0..max}

\* header rows: the usual names; names no pattern knows, so that the columns
\* are taken by position; a sheet with an expression column
HeaderNamed == <<"Gene", "logFC", "FDR">>

HeaderByPosition == <<"id", "lfc", "pval">>

HeaderWithCpm == <<"Gene", "logFC", "logCPM", "FDR">>

\* data rows: every fold change with every FDR text, rows that end early and
\* a row without cells
DgeRows ==
    {<<"g1", fc, fdr>> : fc \in FcCells \ {undefined},
                         fdr \in {"0.01", "0.05", "0.049", "0", "NA", "0.01x"}}
        \cup {<<"g2">>, <<"g3", "2.5">>, <<>>}

DgeRowsWithCpm == {<<"g1", "2.5", "5.25", "0.01">>, <<"g2", "-2.5", "n/a", "0.049">>}

RowSheets ==
    {<<One(h)>> \o [i \in DOMAIN rows |-> One(rows[i])] :
        h \in {HeaderNamed, HeaderByPosition}, rows \in SeqsUpTo(DgeRows, MaxRows)}
    \cup {<<One(HeaderWithCpm)>> \o [i \in DOMAIN rows |-> One(rows[i])] :
            rows \in SeqsUpTo(DgeRowsWithCpm, MaxRows)}

\* rows of the long runs: significant rows whose y is 50 (FDR below 1e-50),
\* 2 (FDR 0.01 and, after rounding, 0.010001) and 1.31, and a row that is
\* not significant
SigCapped == <<"s1", "2.5", "1e-60">>

SigCappedLower == <<"s2", "-2.5", "1e-70">>

SigTwo == <<"s3", "2.5", "0.01">>

SigNearTwo == <<"s4", "-2.5", "0.010001">>

SigLow == <<"s5", "2.5", "0.049">>

NonSig == <<"n", "0", "0.5">>

\* a first run of significant rows, a run of non-significant rows, a second
\* run of significant rows; the sizes lie around SIG_LIMIT and around the
\* slots that are left
SigPairs ==
    {<<SigLow, SigTwo>>, <<SigTwo, SigLow>>, <<SigNearTwo, SigTwo>>,
     <<SigCapped, SigCappedLower>>}

LongSheets ==
    {<<One(HeaderNamed), [n |-> n1, row |-> pair[1]], [n |-> nN, row |-> NonSig],
       [n |-> n2, row |-> pair[2]]>> :
        pair \in SigPairs,
        n1 \in {1, SIG_LIMIT - 1, SIG_LIMIT, MaxSig},
        n2 \in {0, 1, MAX_POINTS - SIG_LIMIT},
        nN \in {0, MAX_POINTS - SIG_LIMIT - 1, 2 * (MAX_POINTS - SIG_LIMIT),
                2 * (MAX_POINTS - SIG_LIMIT) + 1, MaxNonSig}}

InitParser(sheets) ==
    /\ sheet \in sheets
    /\ out = NotParsed
    /\ tokens = <<>>
    /\ cls = NotRun
    /\ processedData = InitialData
    /\ stats = INITIAL_STATS
    /\ customTemplate = null
    /\ uploadStatus = <<>>
    /\ call = [k \in Calls |-> NewCall]
    /\ nextId = 1
    /\ edits = 0

\* parseComparisonDGE on the sheet
ParseDge ==
    /\ ~out.done
    /\ out' = parseComparisonDGE(RawData(sheet))
    /\ UNCHANGED <<sheet, tokens, cls, uploadVars>>

InitDgeRows == InitParser(RowSheets)

InitDownsample == InitParser(LongSheets)

NextDge == ParseDge

SpecDgeRows == InitDgeRows /\ [][NextDge]_vars

SpecDownsample == InitDownsample /\ [][NextDge]_vars

-----------------------------------------------------------------------------
(* The specification of smartSheetToJson: a grid of title rows, header rows  *)
(* and data rows is handed over with the keywords of one of its callers.     *)

\* parseDGESummary
SummaryKeywords == {"comparison", "total", "up", "down", "sig", "regulated"}

\* parseEnrichment
EnrichmentKeywords ==
    {"term", "description", "pathway", "id", "count", "significant", "n",
     "pvalue", "p-value", "p.adjust", "fdr", "qvalue", "q-value"}

KeywordSets == {DgeKeywords, SummaryKeywords, EnrichmentKeywords}

TitleRows == {<<"Differential expression">>, <<"GO enrichment analysis">>, <<"Table 1">>}

HeaderRows ==
    {HeaderNamed, <<"Term", "Count", "p.adjust">>, <<"Comparison", "Total", "Up", "Down">>}

\* data rows: a full row, a row without cells, a row of cells with empty
\* text, a row whose first cell does not exist
DataRows == {<<"a", "2.5", "0.01">>, <<>>, <<"", "">>, <<undefined, "7">>}

\* grids whose header row comes after a run of title rows that ends around
\* the scan window, with or without a second header row further down
TallGrids ==
    {<<[n |-> lead, row |-> <<"Table 1">>], One(h), [n |-> gap, row |-> <<"a", "2.5", "0.01">>],
       One(h)>> :
        lead \in {ScanWindow - 2, ScanWindow - 1, ScanWindow, ScanWindow + 1},
        gap \in {0, 1}, h \in HeaderRows}

Grids ==
    {[i \in DOMAIN rows |-> One(rows[i])] :
        rows \in SeqsUpTo(TitleRows \cup HeaderRows \cup DataRows, MaxGridRows)}
    \cup TallGrids

\* smartSheetToJson on the sheet; out keeps the header row that was chosen
SheetToJson(keywords) ==
    /\ ~out.done
    /\ out' = [done           |-> TRUE,
               keywords       |-> keywords,
               headerRowIndex |-> headerRowIndex(RawData(sheet), keywords),
               records        |-> smartSheetToJson(RawData(sheet), keywords)]
    /\ UNCHANGED <<sheet, tokens, cls, uploadVars>>

InitSheet == InitParser(Grids)

NextSheet == \E keywords \in KeywordSets : SheetToJson(keywords)

SpecSheet == InitSheet /\ [][NextSheet]_vars

-----------------------------------------------------------------------------
(* The specification of the dge_summary row mapping: one row object whose    *)
(* first key is the comparison column and whose other keys are drawn from    *)
(* the headers of summary tables; the cell of column i holds the number i.   *)

SummaryHeaders ==
    {"Down", "Down Sig", "Sig Down", "Downregulated", "Up", "Up Sig", "Sig Up", "Total"}

IsInjective(f) == \A i, j \in DOMAIN f : f[i] = f[j] => i = j

\* Object.keys(r): no key twice
KeyRows ==
    {<<"Comparison">> \o h : h \in {g \in SeqsUpTo(SummaryHeaders, MaxHeaders) : IsInjective(g)}}

SummaryObjects ==
    {[keys |-> k, cells |-> [i \in DOMAIN k |-> IF i = 1 THEN "C1" ELSE i]] : k \in KeyRows}

MapSummaryRow ==
    /\ ~out.done
    /\ out' = [done |-> TRUE, row |-> SummaryRow(sheet.keys, sheet.cells)]
    /\ UNCHANGED <<sheet, tokens, cls, uploadVars>>

InitSummaryKeys == InitParser(SummaryObjects)

NextSummaryKeys == MapSummaryRow

SpecSummaryKeys == InitSummaryKeys /\ [][NextSummaryKeys]_vars

-----------------------------------------------------------------------------
(* parseInt *)

RadixDigits == "0123456789abcdef"

\* the value of a character as a digit, 16 and more for any other character
RadixValue(c) ==
    LET at == {i \in 1..Len(RadixDigits) : CharAt(RadixDigits, i) = LowerChar(c)}
    IN  IF at = {} THEN Len(RadixDigits) ELSE Min(at) - 1

\* last position of the run of digits of the radix that starts at p, p - 1
\* when there is none
RadixRunEnd(s, p, radix) ==
    Min({e \in (p - 1)..Len(s) : e = Len(s) \/ RadixValue(CharAt(s, e + 1)) >= radix})

\* the number written in the radix by the characters p..e
RECURSIVE RadixNumber(_, _, _, _)
RadixNumber(s, p, e, radix) ==
    IF e < p THEN 0
    ELSE radix * RadixNumber(s, p, e - 1, radix) + RadixValue(CharAt(s, e))

ParseDigits(s, p, radix, sign) ==
    IF RadixRunEnd(s, p, radix) < p THEN NaN
    ELSE Num(sign * RadixNumber(s, p, RadixRunEnd(s, p, radix), radix), 0)

\* a prefix 0x or 0X makes the radix 16
ParseRadix(s, p, sign) ==
    IF startsWithAt(toLowerCase(s), p, "0x") THEN ParseDigits(s, p + 2, 16, sign)
    ELSE ParseDigits(s, p, 10, sign)

ParseSigned(s, p) ==
    IF p <= Len(s) /\ CharAt(s, p) = "-" THEN ParseRadix(s, p + 1, -1)
    ELSE IF p <= Len(s) /\ CharAt(s, p) = "+" THEN ParseRadix(s, p + 1, 1)
    ELSE ParseRadix(s, p, 1)

\* parseInt(s) of a string: white space, a sign, the longest run of digits;
\* NaN without a digit
parseInt(s) == ParseSigned(s, SkipSpaces(s, 1))

-----------------------------------------------------------------------------
(* parseEnrichment, from the grid of the first sheet on *)

ReDescription(k) == includes(toLowerCase(k), "description")
ReTerm(k)        == includes(toLowerCase(k), "term")
RePathway(k)     == includes(toLowerCase(k), "pathway")
ReAnyId(k)       == includes(toLowerCase(k), "id")
\* /^count/i
ReCountStart(k)  == startsWithAt(toLowerCase(k), 1, "count")
ReSignificant(k) == includes(toLowerCase(k), "significant")
\* /^n$/i
ReExactN(k)      == toLowerCase(k) = "n"
\* /gene_?count/i
ReGeneCount(k)   == \E w \in {"gene_count", "genecount"} : includes(toLowerCase(k), w)
\* /ontology|category|namespace|type/i
ReCategory(k) ==
    \E w \in {"ontology", "category", "namespace", "type"} : includes(toLowerCase(k), w)
\* /p[-_.]?val|p[-_.]?adj|fdr|q[-_.]?val/i
RePValue(k) ==
    \E w \in {"pval", "p-val", "p_val", "p.val", "padj", "p-adj", "p_adj", "p.adj", "fdr",
              "qval", "q-val", "q_val", "q.val"} : includes(toLowerCase(k), w)

termKeyOf(keys) ==
    OrElse(findKey(keys, ReDescription),
        OrElse(findKey(keys, ReTerm),
            OrElse(findKey(keys, RePathway),
                OrElse(findKey(keys, ReAnyId), KeyAt(keys, 0)))))

countKeyOf(keys) ==
    OrElse(findKey(keys, ReCountStart),
        OrElse(findKey(keys, ReSignificant),
            OrElse(findKey(keys, ReExactN), findKey(keys, ReGeneCount))))

\* parsed, unless it is NaN
NumberOr(parsed, default) == IF isNaN(parsed) THEN default ELSE parsed

\* the term of one row; String(undefined) is the text "undefined"
EnrichmentTerm(row, termKey, countKey, catKey, pKey) ==
    [term     |-> OrElse(Get(row, termKey), "Unknown"),
     count    |-> IF Truthy(countKey) /\ Get(row, countKey) # undefined
                  THEN NumberOr(parseInt(Get(row, countKey)), Num(0, 0))
                  ELSE Num(0, 0),
     pAdjust  |-> IF Truthy(pKey) /\ Get(row, pKey) # undefined
                  THEN NumberOr(parseFloat(Get(row, pKey)), Num(0, 0))
                  ELSE Num(0, 0),
     category |-> IF Truthy(catKey) THEN Get(row, catKey) ELSE undefined]

TermsOf(jsonData, keys) ==
    [i \in 1..Min({Len(jsonData), 50}) |->
        EnrichmentTerm(jsonData[i], termKeyOf(keys), countKeyOf(keys),
                       findKey(keys, ReCategory), findKey(keys, RePValue))]

EnrichmentOfJson(jsonData) ==
    IF Len(jsonData) = 0 THEN <<>> ELSE TermsOf(jsonData, ObjectKeys(jsonData[1]))

parseEnrichment(rawData) == EnrichmentOfJson(smartSheetToJson(rawData, EnrichmentKeywords))

-----------------------------------------------------------------------------
(* The specification of parseEnrichment: a header row whose first cell is    *)
(* the term column and whose other cells are drawn from the headers of       *)
(* enrichment tables, and one data row; the cell of column i reads 10 + i.   *)

EnrichmentHeaders == {"Count", "Counts", "Significant", "N", "gene_count", "p.adjust"}

EnrichmentHeaderRows ==
    {<<"Term">> \o h :
        h \in {g \in SeqsUpTo(EnrichmentHeaders, MaxHeaders) : IsInjective(g)}}

EnrichmentSheets ==
    {<<One(h), One([i \in DOMAIN h |-> IF i = 1 THEN "GO:0006412" ELSE DigitsOf(10 + i)])>> :
        h \in EnrichmentHeaderRows}

ParseEnrichment ==
    /\ ~out.done
    /\ out' = [done |-> TRUE, terms |-> parseEnrichment(RawData(sheet))]
    /\ UNCHANGED <<sheet, tokens, cls, uploadVars>>

InitEnrichment == InitParser(EnrichmentSheets)

NextEnrichment == ParseEnrichment

SpecEnrichment == InitEnrichment /\ [][NextEnrichment]_vars

-----------------------------------------------------------------------------
(* parseGTF, from the text of the file on *)

\* s.split(c) from position p on, c one character
RECURSIVE SplitFrom(_, _, _)
SplitFrom(s, c, p) ==
    LET at == {q \in p..Len(s) : CharAt(s, q) = c}
    IN  IF at = {} THEN <<SubSeq(s, p, Len(s))>>
        ELSE <<SubSeq(s, p, Min(at) - 1)>> \o SplitFrom(s, c, Min(at) + 1)

split(s, c) == SplitFrom(s, c, 1)

\* a + b and a - b on numbers that may be NaN
Plus(a, b) == IF isNaN(a) \/ isNaN(b) THEN NaN ELSE Num(a.m + b.m, 0)

Minus(a, b) == IF isNaN(a) \/ isNaN(b) THEN NaN ELSE Num(a.m - b.m, 0)

\* the match of /transcript_id\s+"([^"]+)";/ that starts at p with the
\* opening quote at q and the next quote at close: its group, else undefined
QuotedAt(s, q, close) ==
    IF close > q + 1 /\ close < Len(s) /\ CharAt(s, close + 1) = ";"
    THEN SubSeq(s, q + 1, close - 1)
    ELSE undefined

\* the first quote after position q, past the end when there is none
NextQuote(s, q) ==
    Min({c \in (q + 1)..(Len(s) + 1) : c = Len(s) + 1 \/ CharAt(s, c) = "\""})

IdFrom(s, after, q) ==
    IF q > after /\ q <= Len(s) /\ CharAt(s, q) = "\"" THEN QuotedAt(s, q, NextQuote(s, q))
    ELSE undefined

TranscriptAt(s, p) ==
    IF startsWithAt(s, p, "transcript_id")
    THEN IdFrom(s, p + Len("transcript_id"), SkipSpaces(s, p + Len("transcript_id")))
    ELSE undefined

\* attributes.match(...)[1] of the leftmost match, undefined without a match
transcriptIdOf(attributes) ==
    LET hit == {p \in 1..Len(attributes) : TranscriptAt(attributes, p) # undefined}
    IN  IF hit = {} THEN undefined ELSE TranscriptAt(attributes, Min(hit))

\* end - start + 1
LengthOf(parts) == Plus(Minus(parseInt(parts[5]), parseInt(parts[4])), Num(1, 0))

\* !transcriptLengths[id] : no entry yet, or an entry that is 0 or NaN
StartsAfresh(transcriptLengths, id) ==
    \/ id \notin DOMAIN transcriptLengths
    \/ isNaN(transcriptLengths[id])
    \/ transcriptLengths[id].m = 0

AddExon(transcriptLengths, id, length) ==
    [g \in DOMAIN transcriptLengths \cup {id} |->
        IF g # id THEN transcriptLengths[g]
        ELSE IF StartsAfresh(transcriptLengths, id) THEN Plus(Num(0, 0), length)
        ELSE Plus(transcriptLengths[id], length)]

GtfMatched(transcriptLengths, parts, transcriptId) ==
    IF transcriptId = undefined THEN transcriptLengths
    ELSE AddExon(transcriptLengths, transcriptId, LengthOf(parts))

\* (variant: the feature type is not looked at)
GtfPartsAnyFeature(transcriptLengths, parts) ==
    IF Len(parts) < 9 THEN transcriptLengths
    ELSE GtfMatched(transcriptLengths, parts, transcriptIdOf(parts[9]))

GtfParts(transcriptLengths, parts) ==
    IF Len(parts) < 9 \/ parts[3] # "exon" THEN transcriptLengths
    ELSE GtfMatched(transcriptLengths, parts, transcriptIdOf(parts[9]))

\* one turn of the loop over the lines
GtfLine(transcriptLengths, line) ==
    IF line = "" \/ startsWithAt(line, 1, "#") THEN transcriptLengths
    ELSE GtfParts(transcriptLengths, split(line, "\t"))

RECURSIVE GtfLinesFrom(_, _, _)
GtfLinesFrom(lines, i, transcriptLengths) ==
    IF i > Len(lines) THEN transcriptLengths
    ELSE GtfLinesFrom(lines, i + 1, GtfLine(transcriptLengths, lines[i]))

RECURSIVE SumOver(_, _)
SumOver(lengths, ids) ==
    IF ids = {} THEN Num(0, 0)
    ELSE LET g == CHOOSE g \in ids : TRUE
         IN  Plus(lengths[g], SumOver(lengths, ids \ {g}))

\* Math.max(...lengths)
MaxOver(lengths) ==
    IF \E g \in DOMAIN lengths : isNaN(lengths[g]) THEN NaN
    ELSE Num(CHOOSE n \in {lengths[g].m : g \in DOMAIN lengths} :
                \A g \in DOMAIN lengths : lengths[g].m <= n, 0)

\* Math.round(totalLen / count): the nearest integer, a half rounds up
RoundedMean(totalLen, count) ==
    IF isNaN(totalLen) THEN NaN ELSE Num((2 * totalLen.m + count) \div (2 * count), 0)

GtfStats(name, lengths, totalLen) ==
    IF DOMAIN lengths = {}
    THEN [name |-> name, count |-> 0, totalLen |-> Num(0, 0), meanLen |-> Num(0, 0),
          maxLen |-> Num(0, 0)]
    ELSE [name     |-> name,
          count    |-> Cardinality(DOMAIN lengths),
          totalLen |-> totalLen,
          meanLen  |-> RoundedMean(totalLen, Cardinality(DOMAIN lengths)),
          maxLen   |-> MaxOver(lengths)]

GtfStatsOf(name, lengths) == GtfStats(name, lengths, SumOver(lengths, DOMAIN lengths))

parseGTF(name, text) ==
    GtfStatsOf(name, GtfLinesFrom(split(text, "\n"), 1, [g \in {} |-> NaN]))

-----------------------------------------------------------------------------
(* The specification of parseGTF: a text of up to MaxLines lines.  Each line *)
(* of the vocabulary comes with what it is: whether it is an exon record     *)
(* with a transcript_id attribute, and then its transcript and coordinates.  *)

NoRecord(text) == [text |-> text, exon |-> FALSE, id |-> "", start |-> 0, end |-> 0]

ExonRecord(text, id, start, end) ==
    [text |-> text, exon |-> TRUE, id |-> id, start |-> start, end |-> end]

GtfLines ==
    {ExonRecord("1\tsrc\texon\t100\t199\t.\t+\t.\tgene_id \"G1\"; transcript_id \"T1\";",
                "T1", 100, 199),
     ExonRecord("1\tsrc\texon\t300\t300\t.\t+\t.\tgene_id \"G1\"; transcript_id \"T1\";",
                "T1", 300, 300),
     ExonRecord("1\tsrc\texon\t500\t549\t.\t-\t.\ttranscript_id  \"T2\"; gene_id \"G2\";\r",
                "T2", 500, 549),
     NoRecord("1\tsrc\tCDS\t100\t180\t.\t+\t0\tgene_id \"G1\"; transcript_id \"T1\";"),
     NoRecord("1\tsrc\ttranscript\t1\t900\t.\t+\t.\tgene_id \"G3\"; transcript_id \"T3\";"),
     NoRecord("1\tsrc\texon\t100\t199\t.\t+\t.\tgene_id \"G1\";"),
     NoRecord("1\texon\t100\t199\t.\t+\t.\ttranscript_id \"T4\";"),
     NoRecord("#!genome-build GRCh38"),
     NoRecord("")}

\* the lines joined by line feeds
RECURSIVE TextFrom(_, _)
TextFrom(lines, i) ==
    IF i > Len(lines) THEN ""
    ELSE lines[i].text \o (IF i < Len(lines) THEN "\n" ELSE "") \o TextFrom(lines, i + 1)

GtfFiles ==
    {[name |-> "genes.gtf", text |-> TextFrom(lines, 1), lines |-> lines] :
        lines \in SeqsUpTo(GtfLines, MaxLines)}

ParseGtf ==
    /\ ~out.done
    /\ out' = [done |-> TRUE, stat |-> parseGTF(sheet.name, sheet.text)]
    /\ UNCHANGED <<sheet, tokens, cls, uploadVars>>

InitGtf == InitParser(GtfFiles)

NextGtf == ParseGtf

SpecGtf == InitGtf /\ [][NextGtf]_vars

-----------------------------------------------------------------------------
(* Claims about detectComparisonId (SpecGroupId) *)

Detected == cls # NotRun

LowerName == toLowerCase(cls.name)

ClaimedAliases == {"comparison", "comp", "c", "contrast", "group", "g"}

DigitAt(s, i) == i <= Len(s) /\ IsDigit(CharAt(s, i))

\* a token (alias)[-_]?7 starts at position p of s
Token7At(s, p) ==
    \E a \in ClaimedAliases, sep \in {"", "-", "_"} : startsWithAt(s, p, a \o sep \o "7")

\* ... and its 7 is not followed by another digit
Token7AloneAt(s, p) ==
    \E a \in ClaimedAliases, sep \in {"", "-", "_"} :
        /\ startsWithAt(s, p, a \o sep \o "7")
        /\ ~DigitAt(s, p + Len(a \o sep) + 1)

\* positions i..j-1 of s hold white space only
AllSpaces(s, i, j) == \A x \in i..(j - 1) : IsSpace(CharAt(s, x))

\* positions i..j-1 of s hold optional white space, an optional - or _ and
\* optional white space
SeparatorBetween(s, i, j) ==
    \/ AllSpaces(s, i, j)
    \/ \E x \in i..(j - 1) :
          /\ CharAt(s, x) \in {"-", "_"}
          /\ AllSpaces(s, i, x)
          /\ AllSpaces(s, x + 1, j)

\* an alias, a separator and a digit start at position p of s
GroupPatternAt(s, p) ==
    \E a \in ClaimedAliases :
        /\ startsWithAt(s, p, a)
        /\ \E d \in (p + Len(a))..Len(s) :
              DigitAt(s, d) /\ SeparatorBetween(s, p + Len(a), d)

\* C8 as stated: every filename that contains a token matching
\* (Comparison|Comp|C|Contrast|Group|G)[-_]?7, case-insensitively, resolves
\* to the group id "C7".
C8_AnyToken7GivesC7 ==
    (Detected /\ \E p \in 1..Len(LowerName) : Token7At(LowerName, p))
        => cls.groupId = "C7"

\* C8 amended: when the first place of the filename where the group pattern
\* (alias, optional white space, optional - or _, optional white space, digit)
\* starts is a token (alias)[-_]?7 whose 7 is not followed by another digit,
\* detectComparisonId returns "C7".
C8_FirstToken7GivesC7 ==
    \A p \in 1..Len(LowerName) :
        ( /\ Detected
          /\ Token7AloneAt(LowerName, p)
          /\ \A q \in 1..(p - 1) : ~GroupPatternAt(LowerName, q) )
        => cls.groupId = "C7"

\* witness: a name with two group tokens whose first is g7
C8_Witness ==
    /\ Detected
    /\ cls.name = "g7C1"
    /\ cls.groupId = "C7"

-----------------------------------------------------------------------------
(* Claims about detectFileType (SpecClassify) *)

ClaimedBinaryExtensions ==
    {".fastq", ".fq", ".fastq.gz", ".fq.gz", ".bam", ".sam", ".bai", ".fa", ".fasta",
     ".fna", ".pdf", ".png", ".jpg", ".jpeg", ".svg"}

\* C9: a filename whose lower-cased name ends in a binary/opaque extension is
\* classified deliverable_only, whatever other keywords it contains.
C9_BinaryExtensionIsDeliverable ==
    (Detected /\ \E x \in ClaimedBinaryExtensions : endsWith(LowerName, x))
        => cls.type = "deliverable_only"

\* witness: a compressed read file whose name also holds a mapping keyword
C9_Witness ==
    /\ Detected
    /\ cls.name = "mapping.fq.gz"
    /\ cls.type = "deliverable_only"

\* the filename is matched by none of the classification rules 1-5
\* (binary extension, markup, annotation, mapping, global statistics)
PastRule5 ==
    /\ Detected
    /\ ~IsDeliverableExt(LowerName)
    /\ ~endsWith(LowerName, ".html") /\ ~endsWith(LowerName, ".htm")
    /\ ~endsWith(LowerName, ".gtf")
    /\ ~IsMapping(LowerName)
    /\ ~IsGlobalStats(LowerName)

HasAny(s, keywords) == \E k \in keywords : includes(s, k)

\* C10 as stated: past rules 1-5 the type is dge_summary if and only if the
\* name contains "summary" or "overview" and one of "dge", "diff", "deg".
C10_SummaryIffSummaryOrOverview ==
    PastRule5 =>
        (cls.type = "dge_summary" <=>
            /\ HasAny(LowerName, {"summary", "overview"})
            /\ HasAny(LowerName, {"dge", "diff", "deg"}))

\* C10 amended: past rules 1-5 the type is dge_summary if and only if the
\* name contains "summary", "overview" or "all" and one of "dge", "diff", "deg".
C10_SummaryIffSummaryOverviewOrAll ==
    PastRule5 =>
        (cls.type = "dge_summary" <=>
            /\ HasAny(LowerName, {"summary", "overview", "all"})
            /\ HasAny(LowerName, {"dge", "diff", "deg"}))

\* witness: an overview of differential expression, classified dge_summary
C10_Witness ==
    /\ PastRule5
    /\ cls.name = "OverviewDGE"
    /\ cls.type = "dge_summary"

\* the filename is matched by none of the classification rules 1-6
\* (rules 1-5 and the summary table of the comparisons)
PastRule6 == PastRule5 /\ ~IsDgeSummary(LowerName)

\* C11 as stated: past rules 1-6 the type is comparison_go if and only if the
\* name contains "gene_ontology", or "go" together with one of "enrich",
\* "term", "result"; a name holding "go" without these goes to later rules.
C11_GoIffEnrichTermResult ==
    PastRule6 =>
        (cls.type = "comparison_go" <=>
            \/ includes(LowerName, "gene_ontology")
            \/ /\ includes(LowerName, "go")
               /\ HasAny(LowerName, {"enrich", "term", "result"}))

\* C11 amended: past rules 1-6 the type is comparison_go if and only if the
\* name contains "gene_ontology", or "go" together with one of "enrich",
\* "term", "result", "_go", "go_"; a name holding "go" without any of these
\* goes to later rules.
C11_GoIffIndicatorOrUnderscore ==
    PastRule6 =>
        (cls.type = "comparison_go" <=>
            \/ includes(LowerName, "gene_ontology")
            \/ /\ includes(LowerName, "go")
               /\ HasAny(LowerName, {"enrich", "term", "result", "_go", "go_"}))

\* witness: "go" with an enrichment keyword, and "go" alone which goes on to
\* the later rules
C11_Witness ==
    /\ PastRule6
    /\ \/ cls.name = "goenrich" /\ cls.type = "comparison_go"
       \/ cls.name = "go.xlsx" /\ cls.type = "deliverable_only"

\* the filename is matched by none of the classification rules 1-9
\* (rules 1-6, GO, KEGG and the keywords of differential expression)
PastRule9 ==
    /\ PastRule6
    /\ ~IsGo(LowerName)
    /\ ~IsKegg(LowerName)
    /\ ~IsDge(LowerName)

TabularExtensions == {".txt", ".csv", ".tsv", ".xls", ".xlsx"}

\* C12: a filename matched by none of rules 1-9 that has a resolvable group
\* id and ends in a tabular extension (.txt, .csv, .tsv, .xls, .xlsx) is
\* classified comparison_dge and not deliverable_only.
C12_GroupIdAndTabularIsDge ==
    ( /\ PastRule9
      /\ cls.groupId # null
      /\ \E x \in TabularExtensions : endsWith(LowerName, x) )
        => cls.type = "comparison_dge"

-----------------------------------------------------------------------------
(* Claims about the counters of parseComparisonDGE (SpecDgeRows) *)

\* C13: for every sequence of input rows, the six counters of the returned
\* ComparisonStats are non-negative, up + down <= total (a row with fold
\* change 0 counts toward neither) and sigUp + sigDown = sigTotal.
C13_CountersConsistent ==
    out.done =>
        /\ \A c \in {"total", "up", "down", "sigUp", "sigDown", "sigTotal"} : out.stats[c] >= 0
        /\ out.stats.up + out.stats.down <= out.stats.total
        /\ out.stats.sigUp + out.stats.sigDown = out.stats.sigTotal

\* witness: a sheet with a row of fold change 0 that is counted and a
\* significant row of negative fold change
C13_Witness ==
    /\ out.done
    /\ sheet = <<One(HeaderNamed), One(<<"g1", "0", "0.01">>), One(<<"g1", "-2.5", "0.01">>)>>
    /\ out.stats = [total |-> 2, up |-> 0, down |-> 1, sigUp |-> 0, sigDown |-> 1,
                    sigTotal |-> 1]

\* the columns of the fold change and of the FDR in a sheet of the model
FoldChangeColumn == CHOOSE c \in 1..Len(sheet[1].row) : sheet[1].row[c] \in {"logFC", "lfc"}

FdrColumn == CHOOSE c \in 1..Len(sheet[1].row) : sheet[1].row[c] \in {"FDR", "pval"}

Cell(row, c) == IF c <= Len(row) THEN row[c] ELSE undefined

\* the whole text of the cell is a decimal number
IsNumeric(v) == v # undefined /\ ~isNaN(Literal(v).value) /\ Literal(v).end = Len(v)

\* the text of the cell begins with a decimal number: optional white space,
\* an optional sign, then a digit or a decimal point and a digit
BeginsWithNumber(v) ==
    /\ v # undefined
    /\ \E p \in 1..Len(v) :
          /\ \A q \in 1..(p - 1) :
                IsSpace(CharAt(v, q)) \/ (q = p - 1 /\ CharAt(v, q) \in {"+", "-"})
          /\ \/ IsDigit(CharAt(v, p))
             \/ CharAt(v, p) = "." /\ p < Len(v) /\ IsDigit(CharAt(v, p + 1))

\* the sheet without its i-th row
Without(i) == [j \in 1..(Len(sheet) - 1) |-> IF j < i THEN sheet[j] ELSE sheet[j + 1]]

\* the i-th row of the sheet adds to no counter and has no point
ExcludedEntirely(i) ==
    /\ out.stats = parseComparisonDGE(RawData(Without(i))).stats
    /\ \A j \in 1..Len(out.volcanoPoints) : out.volcanoPoints[j].src # i - 1
    /\ \A j \in 1..Len(out.maPoints) : out.maPoints[j].src # i - 1

FoldChangeOf(i) == parseFloat(Cell(sheet[i].row, FoldChangeColumn))

FdrOf(i) == parseFloat(Cell(sheet[i].row, FdrColumn))

\* the rows of the sheet that are parseable
ParseableRows == {i \in 2..Len(sheet) : ~isNaN(FoldChangeOf(i)) /\ ~isNaN(FdrOf(i))}

\* FDR < 0.05 and |logFoldChange| > 1, both strict
ClaimedSignificant(i) ==
    /\ Compare(FdrOf(i), Num(5, -2)) < 0
    /\ Compare(MathAbs(FoldChangeOf(i)), Num(1, 0)) > 0

\* C15: a parseable row is flagged significant and counted in sigTotal if and
\* only if FDR < 0.05 and |logFoldChange| > 1, both strict; a significant row
\* with positive fold change counts in sigUp and one with negative fold change
\* in sigDown.
C15_SignificantIffBothStrict ==
    out.done =>
        /\ \A i \in ParseableRows :
              \E j \in 1..Len(out.volcanoPoints) :
                  /\ out.volcanoPoints[j].src = i - 1
                  /\ out.volcanoPoints[j].sig <=> ClaimedSignificant(i)
        /\ out.stats.sigTotal = Cardinality({i \in ParseableRows : ClaimedSignificant(i)})
        /\ out.stats.sigUp = Cardinality({i \in ParseableRows :
                                 ClaimedSignificant(i) /\ FoldChangeOf(i).m > 0})
        /\ out.stats.sigDown = Cardinality({i \in ParseableRows :
                                   ClaimedSignificant(i) /\ FoldChangeOf(i).m < 0})

\* witness: the row with logFC 2.5 and FDR 0.01 counts as up and in sigUp
C15_Witness ==
    /\ out.done
    /\ sheet = <<One(HeaderNamed), One(<<"g1", "2.5", "0.01">>)>>
    /\ out.stats = [total |-> 1, up |-> 1, down |-> 0, sigUp |-> 1, sigDown |-> 0,
                    sigTotal |-> 1]
    /\ out.volcanoPoints[1].sig

-----------------------------------------------------------------------------
(* Claims about the downsampler of parseComparisonDGE (SpecDownsample).  The *)
(* rows of a run follow one another and have the same cells, so the input    *)
(* points are told by run: run r gives the points with src RunStart(r),      *)
(* RunStart(r) + 1, ...                                                      *)

RECURSIVE RunStart(_)
RunStart(r) == IF r = 1 THEN 0 ELSE RunStart(r - 1) + sheet[r - 1].n

\* src of the first k rows of run r
FirstOfRun(r, k) == RunStart(r)..(RunStart(r) + k - 1)

SigRuns == {r \in ParseableRows : ClaimedSignificant(r)}

NonSigRuns == ParseableRows \ SigRuns

RECURSIVE RowsIn(_)
RowsIn(runs) ==
    IF runs = {} THEN 0
    ELSE LET r == CHOOSE q \in runs : TRUE IN sheet[r].n + RowsIn(runs \ {r})

\* S and N: the numbers of significant and of non-significant input points
SigCountIn == RowsIn(SigRuns)

NonSigCountIn == RowsIn(NonSigRuns)

\* src of the significant and of the non-significant points of the output
SigSrcOut(points) == {points[j].src : j \in {i \in 1..Len(points) : points[i].sig}}

NonSigOut(points) ==
    LET rest == SelectSeq(points, LAMBDA p : ~p.sig)
    IN  [j \in 1..Len(rest) |-> rest[j].src]

\* C16: the point set returned has at most 5000 points (volcanoPoints and
\* maPoints each), of which at most 3000 are significant.
C16_AtMost5000AndAtMost3000Significant ==
    out.done =>
        \A points \in {out.volcanoPoints, out.maPoints} :
            /\ Len(points) <= 5000
            /\ Cardinality({i \in 1..Len(points) : points[i].sig}) <= 3000

\* witness: 4000 significant and 6001 non-significant rows give 5000 points
\* of which 3000 are significant
C16_Witness ==
    /\ out.done
    /\ SigCountIn = 4000
    /\ NonSigCountIn = 6001
    /\ Len(out.volcanoPoints) = 5000
    /\ Len(out.maPoints) = 5000
    /\ Cardinality(SigSrcOut(out.volcanoPoints)) = 3000

\* -log10(FDR) of the rows of the significant runs, and the y of their points
NegLogFdrOfRun == [r \in SigRuns |-> NegLog10(FdrOf(r))]

YOfRun ==
    [r \in SigRuns |->
        rowResult[Cell(sheet[r].row, FoldChangeColumn)][Cell(sheet[r].row, FdrColumn)].y]

\* src of the first `room` significant input points when they are ranked by
\* the strength of their run, the highest first, and by input order among
\* points of equal strength
RECURSIVE TopRanked(_, _, _)
TopRanked(runs, room, Strength) ==
    IF runs = {} \/ room = 0 THEN {}
    ELSE LET best == CHOOSE r \in runs :
                         \A q \in runs :
                             \/ Compare(Strength[r], Strength[q]) > 0
                             \/ Compare(Strength[r], Strength[q]) = 0 /\ r <= q
             take == IF sheet[best].n < room THEN sheet[best].n ELSE room
         IN  FirstOfRun(best, take) \cup TopRanked(runs \ {best}, room - take, Strength)

AllSigSrc == UNION {FirstOfRun(r, sheet[r].n) : r \in SigRuns}

RECURSIVE NonSigFrom(_)
NonSigFrom(r) ==
    IF r > Len(sheet) THEN <<>>
    ELSE (IF r \in NonSigRuns THEN [j \in 1..sheet[r].n |-> RunStart(r) + j - 1] ELSE <<>>)
         \o NonSigFrom(r + 1)

\* C18: with S significant and N non-significant points the remaining
\* capacity is 5000 - min(S, 3000), and the non-significant points kept are
\* those at input indices 0, stride, 2 * stride, ... with
\* stride = max(1, floor(N / capacity)), in input order, until the total is 5000.
C18_StrideSampling ==
    out.done =>
        LET nonSig   == NonSigFrom(2)
            capacity == 5000 - (IF SigCountIn < 3000 THEN SigCountIn ELSE 3000)
            stride   == IF NonSigCountIn \div capacity > 1 THEN NonSigCountIn \div capacity
                        ELSE 1
            indices  == {i \in 0..(NonSigCountIn - 1) : i % stride = 0 /\ i \div stride < capacity}
        IN  /\ Len(out.volcanoPoints) =
                   (IF SigCountIn < 3000 THEN SigCountIn ELSE 3000) + Cardinality(indices)
            /\ NonSigOut(out.volcanoPoints) =
                   [k \in 1..Cardinality(indices) |-> nonSig[(k - 1) * stride + 1]]

\* witness: S = 4000 and N = 4000 give 3000 significant points and the 2000
\* non-significant points at the even indices, 5000 in total
C18_Witness ==
    /\ out.done
    /\ SigCountIn = 4000
    /\ NonSigCountIn = 4000
    /\ Len(out.volcanoPoints) = 5000
    /\ Cardinality(SigSrcOut(out.volcanoPoints)) = 3000
    /\ Len(NonSigOut(out.volcanoPoints)) = 2000
    /\ NonSigOut(out.volcanoPoints)[2] = NonSigOut(out.volcanoPoints)[1] + 2

\* C24: whenever there are more non-significant points than the remaining
\* capacity, the non-significant points kept are not a prefix of the
\* non-significant input: they are never just its first capacity points.
C24_KeptAreNotAPrefix ==
    out.done =>
        LET capacity == 5000 - (IF SigCountIn < 3000 THEN SigCountIn ELSE 3000)
        IN  NonSigCountIn > capacity =>
                NonSigOut(out.volcanoPoints) # SubSeq(NonSigFrom(2), 1, capacity)

\* C30: with sigTotal significant and nonSigCount non-significant rows
\* counted, the output holds min(sigTotal, 3000) significant points and
\* min(5000, min(sigTotal, 3000) + nonSigCount) points in all; volcanoPoints
\* and maPoints have the same length and, at each index, the same label and
\* significance flag, and y of the MA point is x of the volcano point.
C30_PointCountsAndProjections ==
    out.done =>
        LET sigKept     == IF out.stats.sigTotal < 3000 THEN out.stats.sigTotal ELSE 3000
            nonSigCount == out.stats.total - out.stats.sigTotal
        IN  /\ Cardinality({j \in 1..Len(out.volcanoPoints) : out.volcanoPoints[j].sig})
                  = sigKept
            /\ Len(out.volcanoPoints) =
                  (IF sigKept + nonSigCount < 5000 THEN sigKept + nonSigCount ELSE 5000)
            /\ Len(out.maPoints) = Len(out.volcanoPoints)
            /\ \A j \in 1..Len(out.volcanoPoints) :
                  /\ out.maPoints[j].label = out.volcanoPoints[j].label
                  /\ out.maPoints[j].sig = out.volcanoPoints[j].sig
                  /\ out.maPoints[j].y = out.volcanoPoints[j].x

\* witness: 3000 significant and 1999 non-significant rows give 4999 points,
\* significant ones first, whose MA y is their fold change
C30_Witness ==
    /\ out.done
    /\ out.stats.sigTotal = 3000
    /\ out.stats.total = 4999
    /\ Len(out.volcanoPoints) = 4999
    /\ Len(out.maPoints) = 4999
    /\ out.volcanoPoints[1].sig /\ ~out.volcanoPoints[4999].sig
    /\ out.maPoints[1].y = out.volcanoPoints[1].x
    /\ out.maPoints[1].y # out.volcanoPoints[1].y

-----------------------------------------------------------------------------
(* Claims about smartSheetToJson (SpecSheet) *)

\* the row holds at least one of the keywords
HoldsKeyword(row, keywords) ==
    \E k \in keywords : includes(toLowerCase(join(row)), k)

\* C19: on a grid whose row 0 is a title row and whose row 1 contains at
\* least one expected keyword, row 1 is chosen as the header row, for every
\* title text and every keyword set the parsers use.
C19_TitleThenHeaderGivesRowOne ==
    ( /\ out.done
      /\ Len(RawData(sheet)) >= 2
      /\ RawData(sheet)[1] \in TitleRows
      /\ HoldsKeyword(RawData(sheet)[2], out.keywords) )
        => out.headerRowIndex = 1

\* the row has a cell that is not empty
HasNonEmptyCell(row) == \E c \in 1..Len(row) : row[c] # undefined /\ row[c] # ""

\* C20: no record is emitted for a data row that has no non-empty cell (a
\* row of empty or absent cells), and exactly one record, in source order,
\* for every other row after the header row.
C20_RecordsAreTheNonEmptyRows ==
    out.done =>
        LET rows == SelectSeq([i \in 1..Len(RawData(sheet)) |-> i - 1],
                        LAMBDA i : /\ i > out.headerRowIndex
                                   /\ HasNonEmptyCell(RawData(sheet)[i + 1]))
        IN  /\ Len(out.records) = Len(rows)
            /\ \A j \in 1..Len(rows) : out.records[j].src = rows[j]

\* the rows of the scan window that hold a keyword, counted from 0
Qualifying ==
    {i \in 0..(Len(RawData(sheet)) - 1) :
        i < 20 /\ HoldsKeyword(RawData(sheet)[i + 1], out.keywords)}

\* C25: the header row is the smallest row index below min(rowCount, 20)
\* whose lower-cased, joined cells contain an expected keyword, and row 0
\* when no row of that window does, even if a later row holds keywords.
C25_SmallestIndexInWindowElseZero ==
    (out.done /\ Len(RawData(sheet)) > 0) =>
        out.headerRowIndex = IF Qualifying = {} THEN 0 ELSE Min(Qualifying)

\* witness: 20 title rows before the header row: row 20 holds keywords, no
\* row of the window does, and row 0 is chosen
C25_Witness ==
    /\ out.done
    /\ Len(RawData(sheet)) > 20
    /\ HoldsKeyword(RawData(sheet)[21], out.keywords)
    /\ Qualifying = {}
    /\ out.headerRowIndex = 0
    /\ Len(out.records) = Len(RawData(sheet)) - 1

-----------------------------------------------------------------------------
(* Claims about the dge_summary row mapping (SpecSummaryKeys) *)

\* the columns whose header starts with a word, whatever the case, other
\* than the column bound to the significant field (the cell of column i is i)
OtherStarting(word, bound) ==
    {i \in 1..Len(sheet.keys) :
        startsWithAt(toLowerCase(sheet.keys[i]), 1, word) /\ i # bound}

FirstOrAbsent(columns) == IF columns = {} THEN 0 ELSE Min(columns)

\* C23: the generic "down" ("up") field binds to the first header starting
\* with "down" ("up") that is not the header bound to the "significant down"
\* ("significant up") field, and is absent only when no such header exists.
C23_GenericSkipsClaimedHeader ==
    out.done =>
        /\ out.row.downTotal = FirstOrAbsent(OtherStarting("down", out.row.sigDown))
        /\ out.row.upTotal = FirstOrAbsent(OtherStarting("up", out.row.sigUp))

-----------------------------------------------------------------------------
(* Claims about parseEnrichment (SpecEnrichment) *)

\* the header row of the sheet, lower-cased
LowerHeader(i) == toLowerCase(RawData(sheet)[1][i])

HeaderColumns == 1..Len(RawData(sheet)[1])

\* the column the stated priority resolves to, 0 when it resolves to none
PriorityCountColumn ==
    LET exact == {i \in HeaderColumns : LowerHeader(i) = "count"}
        sig   == {i \in HeaderColumns : includes(LowerHeader(i), "significant")}
        n     == {i \in HeaderColumns : LowerHeader(i) = "n"}
        gene  == {i \in HeaderColumns : includes(LowerHeader(i), "gene_count")}
    IN  IF exact # {} THEN Min(exact)
        ELSE IF sig # {} THEN Min(sig)
        ELSE IF n # {} THEN Min(n)
        ELSE IF gene # {} THEN Min(gene)
        ELSE 0

\* C26: the count column is the header that is exactly "count", else a
\* header containing "significant", else a header that is exactly "n", else
\* a "gene_count" header; a longer header that begins with "count" is not
\* the exact match (the count of the term is the cell of that column).
C26_CountColumnPriority ==
    out.done =>
        out.terms[1].count =
            IF PriorityCountColumn = 0 THEN Num(0, 0) ELSE Num(10 + PriorityCountColumn, 0)

-----------------------------------------------------------------------------
(* Claims about parseGTF (SpecGtf) *)

\* the sum of end - start + 1 over the exon records of a transcript among
\* the lines from the i-th on
RECURSIVE ExonSumFrom(_, _)
ExonSumFrom(id, i) ==
    IF i > Len(sheet.lines) THEN 0
    ELSE (IF sheet.lines[i].exon /\ sheet.lines[i].id = id
          THEN sheet.lines[i].end - sheet.lines[i].start + 1 ELSE 0)
         + ExonSumFrom(id, i + 1)

TranscriptIds == {sheet.lines[i].id : i \in {j \in 1..Len(sheet.lines) : sheet.lines[j].exon}}

RECURSIVE ExonSumOf(_)
ExonSumOf(ids) ==
    IF ids = {} THEN 0
    ELSE LET g == CHOOSE g \in ids : TRUE IN ExonSumFrom(g, 1) + ExonSumOf(ids \ {g})

\* the integer nearest to t / c
Nearest(t, c) == CHOOSE n \in 0..t : 2 * c * n - c <= 2 * t /\ 2 * t < 2 * c * n + c

\* C21: over the exon records that carry a transcript_id, count is the
\* number of distinct transcript ids, totalLen the sum of end - start + 1,
\* maxLen the largest per-transcript sum and meanLen the rounded mean; other
\* lines contribute nothing, and a text without such a record gives all 0.
C21_TranscriptStatistics ==
    out.done =>
        /\ out.stat.count = Cardinality(TranscriptIds)
        /\ out.stat.totalLen = Num(ExonSumOf(TranscriptIds), 0)
        /\ TranscriptIds # {} =>
            /\ \E g \in TranscriptIds : out.stat.maxLen = Num(ExonSumFrom(g, 1), 0)
            /\ \A g \in TranscriptIds : ExonSumFrom(g, 1) <= out.stat.maxLen.m
            /\ out.stat.meanLen = Num(Nearest(ExonSumOf(TranscriptIds), Cardinality(TranscriptIds)), 0)
        /\ TranscriptIds = {} =>
            /\ out.stat.meanLen = Num(0, 0)
            /\ out.stat.maxLen = Num(0, 0)

\* witness: two exons of one transcript, a CDS line of it and an exon of a
\* second transcript: 2 transcripts, 151 bases, the mean 75.5 rounded to 76
C21_Witness ==
    /\ out.done
    /\ Len(sheet.lines) = 4
    /\ \E i \in 1..4 : ~sheet.lines[i].exon /\ includes(sheet.lines[i].text, "CDS")
    /\ out.stat.count = 2
    /\ out.stat.totalLen = Num(151, 0)
    /\ out.stat.maxLen = Num(101, 0)
    /\ out.stat.meanLen = Num(76, 0)

-----------------------------------------------------------------------------
(* Claims about handleSmartUpload (Spec, FairSpec) *)

Comparisons == processedData.comparisons

\* the positions (k, j): file j of the batch of invocation k
Positions == {p \in Calls \X (1..MaxFiles) : p[2] <= Len(call[p[1]].files)}

FileAt(p) == call[p[1]].files[p[2]]

\* the iteration of the file at p is over
Finished(p) == call[p[1]].pc = "done" \/ p[2] < call[p[1]].i

\* the status a file ends with, from its own name and content alone
OwnStatus(f) ==
    IF fileType[f] \in {"unknown", "deliverable_only"} THEN "success"
    ELSE IF startsWithAt(fileType[f], 1, "comparison_") /\ fileCompId[f] = null THEN "error"
    ELSE IF Files[f].outcome = "error" THEN "error"
    ELSE "success"

\* the files of one type whose parser has returned and whose updaters have run
Processed(type) ==
    {FileAt(p) : p \in {q \in Positions :
        Finished(q) /\ fileType[FileAt(q)] = type /\ OwnStatus(FileAt(q)) = "success"}}

\* the group a summary row belongs to, as the dge_summary merge computes it
RowGroup(row) ==
    IF FirstDigits(row.comp) = undefined THEN undefined ELSE "C" \o FirstDigits(row.comp)

RowStats(row) ==
    [total |-> row.total, up |-> row.upTotal, down |-> row.downTotal,
     sigUp |-> row.sigUp, sigDown |-> row.sigDown, sigTotal |-> row.sig]

SummariesFor(g) ==
    {f \in Processed("dge_summary") :
        \E i \in 1..Len(Files[f].rows) : RowGroup(SummaryOf(Files[f])[i]) = g}

DetailsFor(g) == {f \in Processed("comparison_dge") : fileCompId[f] = g}

\* C1 as stated: once a dge_summary file and a comparison_dge file for the
\* same group have both been processed, in either order, the record's stats
\* and sigCount and a dgeSummaryTable row of the group are those computed from
\* the detail file.
C1_DetailStatsSupersede ==
    \A g \in DOMAIN Comparisons :
        (SummariesFor(g) # {} /\ DetailsFor(g) # {}) =>
            \E f \in DetailsFor(g) :
                /\ Comparisons[g].stats = <<Files[f].dge.stats>>
                /\ Comparisons[g].sigCount = Files[f].dge.sigCount
                /\ \E i \in 1..Len(processedData.dgeSummaryTable) :
                      /\ RowGroup(processedData.dgeSummaryTable[i]) = g
                      /\ RowStats(processedData.dgeSummaryTable[i]) = Files[f].dge.stats

\* invocation k is awaiting the parser of a file of this type and goes on in
\* this step
Resolves(k, type) ==
    /\ call[k].pc = "await"
    /\ call'[k].i > call[k].i
    /\ fileType[call[k].files[call[k].i]] = type
    /\ OwnStatus(call[k].files[call[k].i]) = "success"

\* the summary file carries this description for group g in a description column
Carries(file, g, description) ==
    /\ findKey(file.headers, ReDesc) # undefined
    /\ \E i \in 1..Len(file.rows) :
          /\ RowGroup(SummaryOf(file)[i]) = g
          /\ SummaryOf(file)[i].desc = description

\* C2 as stated: a dge_summary upload leaves name, sigCount, stats, points and
\* GO/KEGG terms of an existing record unchanged, and replaces its description
\* only by a description the file carries for that group.
C2_SummaryKeepsPopulatedFields ==
    [][\A k \in Calls : Resolves(k, "dge_summary") =>
          \A g \in DOMAIN Comparisons :
              LET old  == Comparisons[g]
                  new  == processedData'.comparisons[g]
                  file == Files[call[k].files[call[k].i]]
              IN  /\ new.name = old.name
                  /\ new.sigCount = old.sigCount
                  /\ new.stats = old.stats
                  /\ new.maPoints = old.maPoints
                  /\ new.volcanoPoints = old.volcanoPoints
                  /\ new.goTerms = old.goTerms
                  /\ new.keggPathways = old.keggPathways
                  /\ \/ new.description = old.description
                     \/ Carries(file, g, new.description)]_vars

GoFor(g) == {f \in Processed("comparison_go") : fileCompId[f] = g}

KeggFor(g) == {f \in Processed("comparison_kegg") : fileCompId[f] = g}

GroupIds == {fileCompId[f] : f \in FileIds} \ {null}

\* C3: whatever the interleaving of the invocations, the record of a group
\* holds the contribution of every kind of file processed for it: the detail
\* statistics and points, the GO terms and the KEGG pathways.
C3_NoLostUpdate ==
    \A g \in GroupIds :
        /\ DetailsFor(g) # {} =>
              /\ g \in DOMAIN Comparisons
              /\ \E f \in DetailsFor(g) :
                    /\ Comparisons[g].stats = <<Files[f].dge.stats>>
                    /\ Comparisons[g].sigCount = Files[f].dge.sigCount
                    /\ Comparisons[g].maPoints = Files[f].dge.maPoints
                    /\ Comparisons[g].volcanoPoints = Files[f].dge.volcanoPoints
        /\ GoFor(g) # {} =>
              /\ g \in DOMAIN Comparisons
              /\ \E f \in GoFor(g) : Comparisons[g].goTerms = Files[f].terms
        /\ KeggFor(g) # {} =>
              /\ g \in DOMAIN Comparisons
              /\ \E f \in KeggFor(g) : Comparisons[g].keggPathways = Files[f].terms

\* witness: a detail file and a GO file of one group went through two
\* overlapping invocations and the record holds what both delivered
C3_Witness ==
    /\ call[1].pc = "done" /\ call[2].pc = "done"
    /\ ~call[1].solo /\ ~call[2].solo
    /\ \E g \in DOMAIN Comparisons :
          /\ \E f \in DetailsFor(g) : Comparisons[g].stats = <<Files[f].dge.stats>>
          /\ \E f \in GoFor(g) : Comparisons[g].goTerms = Files[f].terms /\ Files[f].terms # <<>>
          /\ call[1].files = <<CHOOSE f \in DetailsFor(g) : TRUE>>
          /\ call[2].files = <<CHOOSE f \in GoFor(g) : TRUE>>

-----------------------------------------------------------------------------
(* Claims about the errors of handleSmartUpload (Spec) *)

\* the entries of the upload list with this id (none once it is removed)
Entries(id) == {n \in 1..Len(uploadStatus) : uploadStatus[n].id = id}

\* no entry has been removed from the upload list
NothingRemoved == Len(uploadStatus) = nextId - 1

\* the file at p is of a comparison_* type and its name yields no group id
LacksGroupId(p) ==
    /\ fileType[FileAt(p)] \in {"comparison_dge", "comparison_go", "comparison_kegg"}
    /\ fileCompId[FileAt(p)] = null

\* C4: a comparison_* file whose name yields no group id is reported with
\* status error and a message naming the missing comparison id; its entry is
\* in the upload list unless the user removed it, and an invocation on such
\* files alone returns with processedData as it found it.
C4_MissingGroupIdIsReported ==
    /\ \A p \in Positions :
          (Finished(p) /\ LacksGroupId(p)) =>
              /\ p[2] <= Len(call[p[1]].ids)
              /\ NothingRemoved => Entries(call[p[1]].ids[p[2]]) # {}
              /\ \A n \in Entries(call[p[1]].ids[p[2]]) :
                    /\ uploadStatus[n].name = Files[FileAt(p)].name
                    /\ uploadStatus[n].assignedTo = undefined
                    /\ uploadStatus[n].status = "error"
                    /\ includes(uploadStatus[n].message, "missing Comparison ID")
    /\ \A k \in Calls :
          ( /\ call[k].pc = "done"
            /\ \A j \in 1..Len(call[k].files) : LacksGroupId(<<k, j>>) )
          => call[k].endData = call[k].startData

\* witness: go_terms.xlsx was uploaded after a record exists, and is in the
\* list with its error
C4_Witness ==
    /\ DOMAIN Comparisons # {}
    /\ \E p \in Positions :
          /\ Finished(p) /\ LacksGroupId(p)
          /\ Files[FileAt(p)].name = "go_terms.xlsx"
          /\ \E n \in Entries(call[p[1]].ids[p[2]]) :
                uploadStatus[n].message =
                    "Detected GO file but missing Comparison ID (e.g. 'C1', 'Comp1') in filename."

\* C5: every file of a batch whose iteration is over has the status its own
\* name and content give it, a failed file has status error and a message,
\* and an invocation returns only when every file of its batch has been
\* taken: a failure neither ends the loop nor changes another file's status.
C5_FailureIsPerFile ==
    /\ \A p \in Positions :
          Finished(p) =>
              /\ p[2] <= Len(call[p[1]].ids)
              /\ \A n \in Entries(call[p[1]].ids[p[2]]) :
                    /\ uploadStatus[n].name = Files[FileAt(p)].name
                    /\ uploadStatus[n].status = OwnStatus(FileAt(p))
                    /\ OwnStatus(FileAt(p)) = "error" => Truthy(uploadStatus[n].message)
    /\ \A k \in Calls :
          call[k].pc # "new" => Len(call[k].ids) >= Min({call[k].i, Len(call[k].files)})

\* witness: a batch whose first file failed in its parser and whose second
\* file succeeded
C5_Witness ==
    \E k \in Calls :
        /\ call[k].pc = "done"
        /\ Len(call[k].files) = 2
        /\ Files[call[k].files[1]].outcome = "error"
        /\ Parsed(fileType[call[k].files[1]], fileCompId[call[k].files[1]])
        /\ \E n \in Entries(call[k].ids[1]) :
              uploadStatus[n].status = "error" /\ uploadStatus[n].message = "Parsing failed"
        /\ \E n \in Entries(call[k].ids[2]) :
              uploadStatus[n].status = "success" /\ uploadStatus[n].type = "comparison_dge"

-----------------------------------------------------------------------------
(* Claims about termination (FairSpec) and about re-running (Spec) *)

\* the entry with this id is in the upload list with status pending
Pending(id) == \E n \in Entries(id) : uploadStatus[n].status = "pending"

\* C6 as stated: every pending entry of the upload list eventually leaves
\* status pending, and every invocation that awaits a file eventually
\* returns, so that the files after it are processed.
C6_EveryFileSettles ==
    /\ \A id \in 1..MaxFiles : Pending(id) ~> ~Pending(id)
    /\ \A k \in Calls : Active(k) ~> (call[k].pc = "done")

\* C7 as stated: an invocation that runs alone on the files of the invocation
\* before it, starting from the dataset that one returned with, returns with
\* the same dataset.
C7_RerunLeavesDataUnchanged ==
    \A k \in 1..(MaxUploads - 1) :
        ( /\ call[k].pc = "done" /\ call[k + 1].pc = "done"
          /\ call[k].solo /\ call[k + 1].solo
          /\ call[k + 1].files = call[k].files
          /\ call[k + 1].startData = call[k].endData )
        => call[k + 1].endData = call[k].endData

-----------------------------------------------------------------------------
(* Claims about the records of processedData.comparisons (Spec) *)

\* C22: a record of processedData.comparisons is never deleted by an upload,
\* an edit of a name or description, or the removal of a file: the record of
\* a group that exists before a step exists after it.
C22_RecordIsNeverDeleted ==
    [][\A g \in DOMAIN Comparisons : g \in DOMAIN processedData'.comparisons]_vars

\* witness: two records exist after an edit and the removal of a file
C22_Witness ==
    /\ Cardinality(DOMAIN Comparisons) = 2
    /\ edits = 1
    /\ ~NothingRemoved

\* every file of the batch of invocation k ends with status error
AllFail(k) == \A j \in 1..Len(call[k].files) : OwnStatus(call[k].files[j]) = "error"

\* C27: a file whose processing ends with status error leaves processedData
\* as it was before the file was started: an invocation that ran alone on
\* files that all failed returns with the dataset it started with.
C27_FailedFileLeavesDataUnchanged ==
    \A k \in Calls :
        (call[k].pc = "done" /\ call[k].solo /\ AllFail(k))
            => call[k].endData = call[k].startData

\* C28: dgeSummaryTable holds at most one row per comparison group id.
C28_OneRowPerGroup ==
    \A i, j \in 1..Len(processedData.dgeSummaryTable) :
        ( /\ i # j
          /\ RowGroup(processedData.dgeSummaryTable[i]) # undefined )
        => RowGroup(processedData.dgeSummaryTable[i]) # RowGroup(processedData.dgeSummaryTable[j])

\* C29: a record that has stats has sigCount = stats.sigTotal, also after
\* later summary uploads, enrichment uploads and edits for its group.
C29_SigCountIsSigTotal ==
    \A g \in DOMAIN Comparisons :
        Comparisons[g].stats # NoStats => Comparisons[g].sigCount = Comparisons[g].stats[1].sigTotal

\* witness: the record of a group has the stats of its detail file, and a
\* summary file uploaded later names the group with another significant count
C29_Witness ==
    \E g \in DOMAIN Comparisons :
        /\ Comparisons[g].stats # NoStats
        /\ \E i \in 1..Len(processedData.dgeSummaryTable) :
              /\ RowGroup(processedData.dgeSummaryTable[i]) = g
              /\ processedData.dgeSummaryTable[i].sig # Comparisons[g].sigCount
        /\ \A i \in 1..Len(processedData.dgeSummaryTable) :
              processedData.dgeSummaryTable[i].comp # g

====
